---- MODULE Spec2Model ----
(***************************************************************************)
(* BF Art Competition contract (src/bf_competition/src/lib.rs): the        *)
(* competition lifecycle, vote tally, finalization and prize distribution. *)
(* One contract call is one action; a call that panics reverts every       *)
(* storage write it made, so a failed call changes only the records of the *)
(* last call (`last`, `xfers`, `events`).                                  *)
(***************************************************************************)
EXTENDS Integers, Sequences, FiniteSets, TLC

\* ------------------------------------------------------------------ bounds
MaxTime == 4          \* the ledger clock runs over 0..MaxTime
MaxPot == 10          \* fund_pot is not offered once the pot would pass this
MaxPasses == 2        \* distribution passes followed per competition
MaxVotes == 3         \* votes per artist in the payout specification
MaxPayPot == 12       \* pots 0..MaxPayPot in the payout specification

\* ------------------------------------------------------- input universes
Addr == {"a1", "a2", "a3"}           \* identities (Address)
Names == {"A", "B"}                  \* artist display names
Ids == {"c1"}                        \* competition ids
ProfileNames == {"P"}                \* names used in artist profiles
ArtworkNames == {"w1"}               \* artwork_name inputs of submit_art
NewArtworkNames == {"w1"}            \* artwork_name inputs of update_submission_metadata
FundAmounts == {5}                   \* fund_pot amounts (whole units)
MinTokens == {1}                     \* min_vote_tokens inputs
TokenDecimals == {1}                 \* answers of the token's decimals()
\* answers of the token's balance(), an i128: <<hi, lo>> stands for
\* hi * 2^64 + lo, so that a balance of 2^64 or more can be offered
RawBalances == {<<0, 5>>, <<0, 10>>, <<1, 5>>}
Failed == -1                         \* a token-service query that errors
None == "None"                       \* Option::None
Contract == "contract"               \* env.current_contract_address()
\* (artist_add_start, artist_add_end, vote_start, vote_end) offered to
\* create_competition: a window with every phase inside the clock's range, and
\* windows breaking each of the three ordering checks
Windows ==
    {<<0, 1, 2, 3>>, <<0, 0, 1, 2>>, <<0, 1, 1, 2>>, <<0, 1, 3, 2>>}
\* (from, whether the invoker authorizes as from): an admin, another identity,
\* and a call made without the named admin's authorization
Callers == {<<"a1", TRUE>>, <<"a3", TRUE>>, <<"a2", FALSE>>}
\* who submits art (and updates it) under which name, who registers a profile,
\* and who votes
Submissions == {<<"a1", TRUE, "A">>, <<"a3", TRUE, "B">>, <<"a3", FALSE, "A">>}
ProfileCallers == {<<"a1", TRUE>>, <<"a3", FALSE>>}
VoterCallers == {<<"a2", TRUE>>, <<"a3", TRUE>>, <<"a3", FALSE>>}
\* (new_admin1, new_admin2) offered to update_admins: a hand-over of the first
\* slot, its return, and a rewrite of the second slot
AdminUpdates == {<<"a3", None>>, <<"a1", None>>, <<None, "a2">>}
\* (artist_address, name) of the profiles migrate_single_artist installs
Migrations == {<<"a3", "M">>}
\* names offered to update_artist_info
NewProfileNames == {"Q"}
\* the token's answers to (decimals, balance) during an eligibility check
TokenAnswers == (TokenDecimals \X RawBalances) \cup {<<Failed, <<0, 0>>>>}

\* --------------------------------------------------- soroban Map / Vec
EmptyMap == [x \in {} |-> 0]
Has(m, k) == k \in DOMAIN m
Put(m, k, v) == [x \in (DOMAIN m) \cup {k} |-> IF x = k THEN v ELSE m[x]]
Del(m, k) == [x \in (DOMAIN m) \ {k} |-> m[x]]
GetOr(m, k, d) == IF k \in DOMAIN m THEN m[k] ELSE d

RECURSIVE Pow10(_)
Pow10(d) == IF d = 0 THEN 1 ELSE 10 * Pow10(d - 1)

RECURSIVE WithoutArtist(_, _, _)
\* for (addr, name) in comp.artists.iter() { if name != artist_name { push_back } }
WithoutArtist(artists, artist_name, i) ==
    IF i > Len(artists) THEN <<>>
    ELSE (IF artists[i][2] # artist_name THEN <<artists[i]>> ELSE <<>>)
         \o WithoutArtist(artists, artist_name, i + 1)

\* a history filter that drops nothing
AllRecordsKept(history, artist_name, i) == history

RECURSIVE WithoutRecordsOf(_, _, _)
\* for vote_record in comp_history.iter() { if vote_record.artist != artist_name ... }
WithoutRecordsOf(history, artist_name, i) ==
    IF i > Len(history) THEN <<>>
    ELSE (IF history[i].artist # artist_name THEN <<history[i]>> ELSE <<>>)
         \o WithoutRecordsOf(history, artist_name, i + 1)

\* a deletion that stores the competition-id list as it found it
AllIdsKept(ids, id, i) == ids

RECURSIVE WithoutId(_, _, _)
\* for comp_id in competition_ids.iter() { if comp_id != id { push_back } }
WithoutId(ids, id, i) ==
    IF i > Len(ids) THEN <<>>
    ELSE (IF ids[i] # id THEN <<ids[i]>> ELSE <<>>) \o WithoutId(ids, id, i + 1)

\* comp.artists.iter().any(|(_, name)| name == artist)
HasArtist(artists, name) == \E i \in 1..Len(artists) : artists[i][2] = name

\* a lookup that takes the first submitter whatever the name
FindAddrFirst(artists, n, i) == IF Len(artists) = 0 THEN None ELSE artists[1][1]

RECURSIVE FindAddr(_, _, _)
\* for (addr, name) in comp.artists.iter() { if name == n { ...; break } }
FindAddr(artists, n, i) ==
    IF i > Len(artists) THEN None
    ELSE IF artists[i][2] = n THEN artists[i][1]
    ELSE FindAddr(artists, n, i + 1)

\* ------------------------------------------------------ Ranking Engine
\* one (name, votes) pair per submitted artist, a missing tally entry as 0
ArtistVotes(artists, votes) ==
    [i \in 1..Len(artists) |-> <<artists[i][2], GetOr(votes, artists[i][2], 0)>>]

\* a sort that also swaps equal neighbours (not stable)
SwapOnTie(cur, nxt) == cur <= nxt

\* if current_votes < next_votes { swap }
SwapNeeded(cur, nxt) == cur < nxt

RECURSIVE BubbleInner(_, _, _)
\* for j in 0..(len - 1 - i): compare positions j, j+1 (1-based here: j+1, j+2)
BubbleInner(av, i, j) ==
    IF j >= Len(av) - 1 - i THEN av
    ELSE IF SwapNeeded(av[j + 1][2], av[j + 2][2])
         THEN BubbleInner([av EXCEPT ![j + 1] = av[j + 2], ![j + 2] = av[j + 1]], i, j + 1)
         ELSE BubbleInner(av, i, j + 1)

RECURSIVE BubbleOuter(_, _)
\* for i in 0..len
BubbleOuter(av, i) ==
    IF i >= Len(av) THEN av ELSE BubbleOuter(BubbleInner(av, i, 0), i + 1)

\* a sort that stops after its first pass
BubbleOnce(av) == BubbleInner(av, 0, 0)

\* "manual bubble sort": len passes over the list
BubbleSort(av) == BubbleOuter(av, 0)

SortedVotes(artists, votes) == BubbleSort(ArtistVotes(artists, votes))

\* ----------------------------------------------- Finalization transition
\* internal_finalize(env, comp): the new competition record and artist registry,
\* and whether it ran
FinalWinner(c) ==
    IF Len(c.artists) = 0 THEN None
    ELSE LET av == SortedVotes(c.artists, c.votes)
         IN  IF Len(av) > 0 /\ av[1][2] > 0 THEN av[1][1] ELSE None

FinalInfo(c, info) ==
    LET w == FinalWinner(c)
        addr == FindAddr(c.artists, w, 1)
    IN  IF w # None /\ addr # None /\ Has(info, addr)
        THEN Put(info, addr, [info[addr] EXCEPT !.competitions_won = @ + 1])
        ELSE info

internal_finalize(c) == [c EXCEPT !.finalized = TRUE, !.winner = FinalWinner(c)]

\* ------------------------------------------------- Prize Distribution

\* one token transfer attempt from the contract; the k-th attempt of a call
\* succeeds iff out[k]
Attempt(st, to, amt, stroop, out) ==
    LET ok == out[Len(st.xf) + 1]
    IN  [xf |-> Append(st.xf, [to |-> to, amt |-> amt, stroop |-> stroop, ok |-> ok]),
         paid |-> st.paid]

RECURSIVE GroupFrom(_, _, _, _, _)
\* "Group artists by vote count": consecutive runs of equal votes of the sorted list
GroupFrom(av, i, cur, grp, acc) ==
    IF i > Len(av) THEN Append(acc, [votes |-> cur, members |-> grp])
    ELSE IF av[i][2] = cur
         THEN GroupFrom(av, i + 1, cur, Append(grp, av[i][1]), acc)
         ELSE GroupFrom(av, i + 1, av[i][2], <<av[i][1]>>,
                        Append(acc, [votes |-> cur, members |-> grp]))

Grouped(av) ==
    IF Len(av) = 0 THEN <<>> ELSE GroupFrom(av, 2, av[1][2], <<av[1][1]>>, <<>>)

RECURSIVE CombinedShare(_, _, _, _)
\* for offset in 0..group_size: the schedule entries at rank_index + offset
\* that lie inside the schedule
CombinedShare(share, rank_index, group_size, offset) ==
    IF offset >= group_size THEN 0
    ELSE (IF rank_index + offset < Len(share) THEN share[rank_index + offset + 1] ELSE 0)
         + CombinedShare(share, rank_index, group_size, offset + 1)

\* an amount rounded up instead of down
AmtLumenRoundedUp(pot, share_per_artist) == (pot * share_per_artist + 99) \div 100

\* let amt_lumen = comp.pot * share_per_artist / 100
AmtLumen(pot, share_per_artist) == (pot * share_per_artist) \div 100

\* a total that also counts the amounts of failed transfers
PaidAlways(paid, amt, ok) == paid + amt

\* Ok(Ok(())) => total_paid += amt_lumen;  a failed transfer adds nothing
PaidAfter(paid, amt, ok) == IF ok THEN paid + amt ELSE paid

RECURSIVE PayGroup(_, _, _, _, _, _, _)
\* for artist_sym in group_artists.iter(): pay the first artist of that name
PayGroup(members, i, share_per_artist, c, mult, out, st) ==
    IF i > Len(members) THEN st
    ELSE LET addr == FindAddr(c.artists, members[i], 1)
             amt_lumen == AmtLumen(c.pot, share_per_artist)
             amt_stroop == amt_lumen * mult
             st1 == IF addr # None /\ amt_stroop > 0
                    THEN LET a == Attempt(st, addr, amt_lumen, amt_stroop, out)
                         IN  [a EXCEPT !.paid =
                                 PaidAfter(st.paid, amt_lumen, a.xf[Len(a.xf)].ok)]
                    ELSE st
         IN  PayGroup(members, i + 1, share_per_artist, c, mult, out, st1)

RECURSIVE PayGroups(_, _, _, _, _, _, _)
\* for group_data in grouped.iter(): the primary, share-based payments
PayGroups(grouped, g, rank_index, c, mult, out, st) ==
    IF g > Len(grouped) THEN st
    ELSE IF grouped[g].votes = 0 THEN st
    ELSE LET group_size == Len(grouped[g].members)
             combined_share == CombinedShare(c.share_ratio, rank_index, group_size, 0)
         IN  IF combined_share = 0 THEN st
             ELSE LET share_per_artist == combined_share \div group_size
                      st1 == PayGroup(grouped[g].members, 1, share_per_artist, c, mult, out, st)
                  IN  IF rank_index + group_size >= Len(c.share_ratio) THEN st1
                      ELSE PayGroups(grouped, g + 1, rank_index + group_size, c, mult, out, st1)

RECURSIVE TakeWhilePositive(_, _)
\* artist_votes.iter().take_while(|(_, votes)| *votes > 0).count()
TakeWhilePositive(av, i) ==
    IF i > Len(av) \/ av[i][2] = 0 THEN 0 ELSE 1 + TakeWhilePositive(av, i + 1)

Min(a, b) == IF a < b THEN a ELSE b

\* a total of the whole schedule, whatever the number of winners
SumWholeSchedule(share, n) ==
    LET S[k \in 0..Len(share)] == IF k = 0 THEN 0 ELSE share[k] + S[k - 1]
    IN  S[Len(share)]

RECURSIVE SumShare(_, _)
\* the first n schedule percentages
SumShare(share, n) == IF n = 0 THEN 0 ELSE share[n] + SumShare(share, n - 1)

\* a leftover that forgets what the primary payments paid
LeftoverOfWholePot(pot, total_paid) == pot

\* let leftover = comp.pot - total_paid
Leftover(pot, total_paid) == pot - total_paid

RECURSIVE PayLeftover(_, _, _, _, _, _, _, _, _)
\* for i in 0..winners_count: the proportional share of the leftover, best effort
PayLeftover(av, i, winners_count, leftover, total_winner_share, c, mult, out, st) ==
    IF i >= winners_count THEN st
    ELSE LET st1 ==
               IF i < Len(av) /\ av[i + 1][2] > 0 /\ i < Len(c.share_ratio)
               THEN LET proportional_amount ==
                            (leftover * c.share_ratio[i + 1]) \div total_winner_share
                        addr == FindAddr(c.artists, av[i + 1][1], 1)
                    IN  IF proportional_amount > 0 /\ addr # None
                           /\ proportional_amount * mult > 0
                        THEN Attempt(st, addr, proportional_amount,
                                     proportional_amount * mult, out)
                        ELSE st
               ELSE st
         IN  PayLeftover(av, i + 1, winners_count, leftover, total_winner_share,
                         c, mult, out, st1)

\* the distribution pass of pay_winners (after the decimals query): every
\* transfer attempt it makes, in order, under the outcome pattern `out`
Distribute(c, mult, out) ==
    LET av == SortedVotes(c.artists, c.votes)
        st1 == PayGroups(Grouped(av), 1, 0, c, mult, out, [xf |-> <<>>, paid |-> 0])
        leftover == Leftover(c.pot, st1.paid)
        winners_count == Min(TakeWhilePositive(av, 1), Len(c.share_ratio))
        total_winner_share == SumShare(c.share_ratio, winners_count)
    IN  IF leftover > 0 /\ Len(av) > 0 /\ total_winner_share > 0
        THEN PayLeftover(av, 0, winners_count, leftover, total_winner_share,
                         c, mult, out, st1).xf
        ELSE st1.xf

\* the most transfers one pass attempts: one share-based payment per artist with
\* votes, and one leftover payment per winner the schedule has a place for
MaxAttempts(c) ==
    LET voted == Cardinality({i \in 1..Len(c.artists) :
                                 GetOr(c.votes, c.artists[i][2], 0) > 0})
    IN  voted + Min(voted, Len(c.share_ratio))

\* a pass that leaves the pot as it found it
PotKept(pot) == pot

\* comp.pot = 0; // Set to 0, prevent double distribution
PotAfterPass(pot) == 0

\* ------------------------------------------------------------------ state
VARIABLES
    now,          \* env.ledger().timestamp()
    admin1,       \* instance storage "admin1"
    admin2,       \* instance storage "admin2"
    storage,      \* instance storage: competition id -> Competition
    comp_list,    \* instance storage "comp_list": Vec<String>
    vote_hist,    \* instance storage "vote_hist": id -> Vec<VoteHistory>
    artist_info,  \* instance storage "artist_info": Address -> ArtistInfo
    last,         \* the last call: operation, arguments, outcome
    xfers,        \* the token transfers the last call attempted, in order
    events,       \* the writes and token-service calls, in program order, of the
                  \* last vote, fund_pot or delete_competition that returned
    accepted,     \* per id: the voters whose vote the current competition accepted
    passes,       \* per id: distribution passes run on a non-empty pot
    finals        \* per id: runs of internal_finalize

vars == <<now, admin1, admin2, storage, comp_list, vote_hist, artist_info,
          last, xfers, events, accepted, passes, finals>>

store == <<admin1, admin2, storage, comp_list, vote_hist, artist_info>>
ghost == <<accepted, passes, finals>>

\* the calls of the external token service among the events
TokenCalls == {"token.decimals", "token.balance", "token.transfer"}

\* a call that returned: pass tells whether a distribution pass ran in it
Call(op, id, from, arg, pass) ==
    [op |-> op, id |-> id, from |-> from, arg |-> arg, ok |-> TRUE, pass |-> pass]

\* a call that panicked: every storage write of the call is rolled back and
\* no transfer of it takes effect
Fails(op) ==
    /\ last' = [op |-> op, id |-> None, from |-> None, arg |-> None,
                ok |-> FALSE, pass |-> FALSE]
    /\ events' = <<>>
    /\ xfers' = <<>>
    /\ UNCHANGED <<now, store, ghost>>

\* an admin check that also admits the identities the contract was built with
IsOrWasAdmin(from) == from = admin1 \/ from = admin2 \/ from \in {"a1", "a2"}

\* assert!(from == admin1 || from == admin2, ...)
IsAdmin(from) == from = admin1 \/ from = admin2

Transfer(to, amt, mult, ok) == [to |-> to, amt |-> amt, stroop |-> amt * mult, ok |-> ok]

Init ==
    /\ now = 0
    /\ admin1 = "a1"
    /\ admin2 = "a2"
    /\ storage = EmptyMap
    /\ comp_list = <<>>
    /\ vote_hist = EmptyMap
    /\ artist_info = EmptyMap
    /\ last = Call("__constructor", None, None, None, FALSE)
    /\ events = <<>>
    /\ xfers = <<>>
    /\ accepted = [i \in Ids |-> {}]
    /\ passes = [i \in Ids |-> 0]
    /\ finals = [i \in Ids |-> 0]

\* the ledger clock advances between calls
Tick ==
    /\ now < MaxTime
    /\ now' = now + 1
    /\ last' = Call("tick", None, None, None, FALSE)
    /\ events' = <<>>
    /\ xfers' = <<>>
    /\ UNCHANGED <<store, ghost>>

\* ------------------------------------------------------ create_competition
NewCompetition(s, e, vs, ve, min) ==
    [artist_add_start |-> s, artist_add_end |-> e, vote_start |-> vs, vote_end |-> ve,
     min_vote_tokens |-> min, artists |-> <<>>, votes |-> EmptyMap,
     vote_log |-> EmptyMap, finalized |-> FALSE, winner |-> None, pot |-> 0,
     artist_metadata |-> EmptyMap, share_ratio |-> <<50, 30, 20>>]

\* checks that let the vote start at the very end of the submission window
CreateErrorLoose(from, auth, id, s, e, vs, ve) ==
    IF ~(s < e) THEN "Invalid submission window"
    ELSE IF ~(vs >= e) THEN "Vote start must be after submission end"
    ELSE IF ~(ve > vs) THEN "Invalid voting window"
    ELSE IF Has(storage, id) THEN "Competition ID already exists"
    ELSE IF ~IsAdmin(from) THEN "Only admins can create"
    ELSE IF ~auth THEN "require_auth"
    ELSE ""

\* the asserts of create_competition, in the order of the code
CreateError(from, auth, id, s, e, vs, ve) ==
    IF ~(s < e) THEN "Invalid submission window"
    ELSE IF ~(vs > e) THEN "Vote start must be after submission end"
    ELSE IF ~(ve > vs) THEN "Invalid voting window"
    ELSE IF Has(storage, id) THEN "Competition ID already exists"
    ELSE IF ~IsAdmin(from) THEN "Only admins can create"
    ELSE IF ~auth THEN "require_auth"
    ELSE ""

create_competition ==
    \E caller \in Callers, id \in Ids, min \in MinTokens, w \in Windows :
        LET from == caller[1]
            err == CreateError(from, caller[2], id, w[1], w[2], w[3], w[4])
        IN  IF err # "" THEN Fails("create_competition")
            ELSE /\ storage' = Put(storage, id, NewCompetition(w[1], w[2], w[3], w[4], min))
                 /\ comp_list' = Append(comp_list, id)
                 /\ accepted' = [accepted EXCEPT ![id] = {}]
                 /\ passes' = [passes EXCEPT ![id] = 0]
                 /\ finals' = [finals EXCEPT ![id] = 0]
                 /\ last' = Call("create_competition", id, from, None, FALSE)
                 /\ events' = <<>>
                 /\ xfers' = <<>>
                 /\ UNCHANGED <<now, admin1, admin2, vote_hist, artist_info>>

\* -------------------------------------------------------------- submit_art
\* a submission check without the scan of the artist list
SubmitErrorAnyName(id, auth, artist_name, artwork_name, description, img_url) ==
    IF ~auth THEN "require_auth"
    ELSE IF ~Has(storage, id) THEN "Competition not found"
    ELSE IF now < storage[id].artist_add_start \/ now > storage[id].artist_add_end
         THEN "Submission window closed"
    ELSE LET artworks == GetOr(storage[id].artist_metadata, artist_name, <<>>)
         IN  IF \E k \in 1..Len(artworks) : artworks[k].artwork_name = artwork_name
             THEN "Artwork name already exists"
             ELSE IF \E k \in 1..Len(artworks) : artworks[k].description = description
             THEN "Description already exists"
             ELSE IF \E k \in 1..Len(artworks) : artworks[k].img_url = img_url
             THEN "Image URL already exists"
             ELSE ""

SubmitError(id, auth, artist_name, artwork_name, description, img_url) ==
    IF ~auth THEN "require_auth"
    ELSE IF ~Has(storage, id) THEN "Competition not found"
    ELSE IF now < storage[id].artist_add_start \/ now > storage[id].artist_add_end
         THEN "Submission window closed"
    ELSE IF HasArtist(storage[id].artists, artist_name) THEN "Artist name already submitted"
    ELSE LET artworks == GetOr(storage[id].artist_metadata, artist_name, <<>>)
         IN  IF \E k \in 1..Len(artworks) : artworks[k].artwork_name = artwork_name
             THEN "Artwork name already exists"
             ELSE IF \E k \in 1..Len(artworks) : artworks[k].description = description
             THEN "Description already exists"
             ELSE IF \E k \in 1..Len(artworks) : artworks[k].img_url = img_url
             THEN "Image URL already exists"
             ELSE ""

\* submit_art(id, artist_address, artist_name, artwork_name, description, img_url)
SubmitArt(id, sub, artwork_name, description, img_url) ==
    LET artist_address == sub[1]
        artist_name == sub[3]
        err == SubmitError(id, sub[2], artist_name, artwork_name, description, img_url)
        c == storage[id]
        artworks == Append(GetOr(c.artist_metadata, artist_name, <<>>),
                           [artwork_name |-> artwork_name, description |-> description,
                            img_url |-> img_url])
    IN  IF err # "" THEN Fails("submit_art")
        ELSE /\ storage' = Put(storage, id,
                    [c EXCEPT !.artist_metadata = Put(@, artist_name, artworks),
                              !.artists = Append(@, <<artist_address, artist_name>>)])
             /\ last' = Call("submit_art", id, artist_address, artist_name, FALSE)
             /\ events' = <<>>
             /\ xfers' = <<>>
             /\ UNCHANGED <<now, admin1, admin2, comp_list, vote_hist, artist_info, ghost>>

submit_art ==
    \E id \in Ids, sub \in Submissions, artwork_name \in ArtworkNames :
        SubmitArt(id, sub, artwork_name, "d1", "u1")

\* ---------------------------------------------- update_submission_metadata
UpdateError(id, artist_name, from, auth) ==
    IF ~Has(storage, id) THEN "unwrap"
    ELSE IF ~(\E i \in 1..Len(storage[id].artists) :
                 storage[id].artists[i] = <<from, artist_name>>)
         THEN "Only the submitting artist can update metadata"
    ELSE IF ~auth THEN "require_auth"
    ELSE IF ~Has(storage[id].artist_metadata, artist_name) THEN "unwrap"
    ELSE ""

UpdatedArtworks(artworks, artwork_name, description) ==
    IF Len(artworks) > 0
    THEN [artworks EXCEPT ![1] =
            [artwork_name |-> IF artwork_name # None THEN artwork_name ELSE @.artwork_name,
             description |-> IF description # None THEN description ELSE @.description,
             img_url |-> @.img_url]]
    ELSE artworks

update_submission_metadata ==
    \E id \in Ids, sub \in Submissions,
       artwork_name \in NewArtworkNames \cup {None}, description \in {None} :
        LET from == sub[1]
            artist_name == sub[3]
            err == UpdateError(id, artist_name, from, sub[2])
            c == storage[id]
        IN  IF err # "" THEN Fails("update_submission_metadata")
            ELSE /\ storage' = Put(storage, id,
                        [c EXCEPT !.artist_metadata = Put(@, artist_name,
                            UpdatedArtworks(c.artist_metadata[artist_name],
                                            artwork_name, description))])
                 /\ last' = Call("update_submission_metadata", id, from, artist_name, FALSE)
                 /\ events' = <<>>
                 /\ xfers' = <<>>
                 /\ UNCHANGED <<now, admin1, admin2, comp_list, vote_hist, artist_info, ghost>>

\* --------------------------------------------------------- add_artist_info
AddInfoError(from, auth, name) ==
    IF ~auth THEN "require_auth"
    ELSE IF \E a \in DOMAIN artist_info : artist_info[a].name = name
         THEN "Artist name already exists"
    ELSE ""

add_artist_info ==
    \E caller \in ProfileCallers, name \in ProfileNames :
        LET from == caller[1]
            err == AddInfoError(from, caller[2], name)
        IN  IF err # "" THEN Fails("add_artist_info")
            ELSE /\ artist_info' = Put(artist_info, from,
                        [registered |-> TRUE, name |-> name,
                         competitions_participated |-> 0, competitions_won |-> 0])
                 /\ last' = Call("add_artist_info", None, from, name, FALSE)
                 /\ events' = <<>>
                 /\ xfers' = <<>>
                 /\ UNCHANGED <<now, admin1, admin2, storage, comp_list, vote_hist, ghost>>

\* --------------------------------------------------- Eligibility Evaluator
\* voter_balance_stroop as u64: the low 64 bits of the i128
AsU64(bal) == bal[2]

\* check_voting_eligibility, given the token's answers: decimals d, raw balance bal
check_voting_eligibility(c, t, voter, d, bal) ==
    LET voting_active == t >= c.vote_start /\ t <= c.vote_end
        current_balance == AsU64(bal) \div Pow10(d)
        has_voted == Has(c.vote_log, voter)
    IN  [can_vote |-> voting_active /\ current_balance >= c.min_vote_tokens /\ ~has_voted,
         has_voted |-> has_voted,
         current_balance |-> current_balance,
         min_required |-> c.min_vote_tokens,
         voting_active |-> voting_active]

\* the read entry point: env.invoke_contract panics when the token errors
EligibilityError(id, d) ==
    IF ~Has(storage, id) THEN "unwrap"
    ELSE IF d = Failed THEN "token query failed"
    ELSE ""

check_eligibility_call ==
    \E id \in Ids, caller \in VoterCallers, tok \in TokenAnswers :
        IF EligibilityError(id, tok[1]) # "" THEN Fails("check_voting_eligibility")
        ELSE /\ last' = Call("check_voting_eligibility", id, caller[1],
                             check_voting_eligibility(storage[id], now, caller[1],
                                                      tok[1], tok[2]).can_vote,
                             FALSE)
             /\ events' = <<>>
             /\ xfers' = <<>>
             /\ UNCHANGED <<now, store, ghost>>

\* ------------------------------------------------------------- Vote Tally
\* the checks of vote without the one on the artist's name
VoteErrorAnyArtist(id, from, auth, artist, d, bal) ==
    IF ~Has(storage, id) THEN "unwrap"
    ELSE IF ~auth THEN "require_auth"
    ELSE IF d = Failed THEN "token query failed"
    ELSE LET eligibility == check_voting_eligibility(storage[id], now, from, d, bal)
         IN  IF ~eligibility.can_vote THEN "Not eligible to vote"
             ELSE IF eligibility.has_voted THEN "Already voted"
             ELSE ""

\* the checks of vote, in the order of the code
VoteError(id, from, auth, artist, d, bal) ==
    IF ~Has(storage, id) THEN "unwrap"
    ELSE IF ~auth THEN "require_auth"
    ELSE IF d = Failed THEN "token query failed"
    ELSE LET eligibility == check_voting_eligibility(storage[id], now, from, d, bal)
         IN  IF ~eligibility.can_vote THEN "Not eligible to vote"
             ELSE IF eligibility.has_voted THEN "Already voted"
             ELSE IF ~HasArtist(storage[id].artists, artist) THEN "Invalid artist"
             ELSE ""

\* an accepted vote that is tallied but not entered in the vote log
VotedUnlogged(c, from, artist) ==
    [c EXCEPT !.votes = Put(@, artist, GetOr(c.votes, artist, 0) + 1)]

\* an accepted vote that counts double
VotedTwice(c, from, artist) ==
    [c EXCEPT !.vote_log = Put(@, from, artist),
              !.votes = Put(@, artist, GetOr(c.votes, artist, 0) + 2)]

\* the competition record after an accepted vote
Voted(c, from, artist) ==
    [c EXCEPT !.vote_log = Put(@, from, artist),
              !.votes = Put(@, artist, GetOr(c.votes, artist, 0) + 1)]

\* what a vote that returns does, in program order: the eligibility check
\* with its two token queries, the in-memory updates of the record, and the
\* two stores
VoteEvents ==
    <<"token.decimals", "token.balance", "comp.vote_log.set", "comp.votes.set",
      "store vote_hist", "store comp">>

vote ==
    \E id \in Ids, caller \in VoterCallers, artist \in Names, tok \in TokenAnswers :
        LET from == caller[1]
            err == VoteError(id, from, caller[2], artist, tok[1], tok[2])
            vote_record == [voter |-> from, artist |-> artist, timestamp |-> now]
        IN  IF err # "" THEN Fails("vote")
            ELSE /\ storage' = Put(storage, id, Voted(storage[id], from, artist))
                 /\ vote_hist' = Put(vote_hist, id,
                                     Append(GetOr(vote_hist, id, <<>>), vote_record))
                 /\ accepted' = [accepted EXCEPT ![id] = @ \cup {from}]
                 /\ last' = Call("vote", id, from, artist, FALSE)
                 /\ events' = VoteEvents
                 /\ xfers' = <<>>
                 /\ UNCHANGED <<now, admin1, admin2, comp_list, artist_info, passes, finals>>

\* ------------------------------------------------------------------ fund_pot
FundError(id, auth, d, ok) ==
    IF ~Has(storage, id) THEN "unwrap"
    ELSE IF ~auth THEN "require_auth"
    ELSE IF d = Failed THEN "token query failed"
    ELSE IF ~ok THEN "transfer failed"
    ELSE ""

\* what a fund_pot that returns does, in program order
FundEvents == <<"token.decimals", "comp.pot.set", "store comp", "token.transfer">>

fund_pot ==
    \E id \in Ids, caller \in Callers, amount \in FundAmounts,
       d \in TokenDecimals \cup {Failed}, ok \in BOOLEAN :
        LET from == caller[1]
            err == FundError(id, caller[2], d, ok)
            c == storage[id]
        IN  IF err # "" THEN Fails("fund_pot")
            ELSE /\ c.pot + amount <= MaxPot
                 /\ storage' = Put(storage, id, [c EXCEPT !.pot = @ + amount])
                 /\ last' = Call("fund_pot", id, from, amount, FALSE)
                 /\ events' = FundEvents
                 /\ xfers' = <<Transfer(Contract, amount, Pow10(d), TRUE)>>
                 /\ UNCHANGED <<now, admin1, admin2, comp_list, vote_hist, artist_info, ghost>>

\* ------------------------------------------------------------ remove_artist
RemoveError(id, from, auth, artist_name) ==
    IF ~Has(storage, id) THEN "unwrap"
    ELSE IF ~IsAdmin(from) THEN "Only admins can remove artists"
    ELSE IF ~auth THEN "require_auth"
    ELSE IF ~HasArtist(storage[id].artists, artist_name) THEN "Artist not found in competition"
    ELSE ""

RECURSIVE ClearVoters(_, _, _, _)
\* for voter in voters_to_clear: comp.vote_log.remove(voter), the voters being
\* those of the history records that name the removed artist
ClearVoters(vote_log, history, artist_name, i) ==
    IF i > Len(history) THEN vote_log
    ELSE ClearVoters(IF history[i].artist = artist_name
                     THEN Del(vote_log, history[i].voter) ELSE vote_log,
                     history, artist_name, i + 1)

\* a removal that also withdraws the removed artist's win
RemovedArtistAndWin(c, history, artist_name) ==
    [c EXCEPT !.artists = WithoutArtist(c.artists, artist_name, 1),
              !.artist_metadata = Del(@, artist_name),
              !.votes = Del(@, artist_name),
              !.vote_log = ClearVoters(@, history, artist_name, 1),
              !.winner = IF @ = artist_name THEN None ELSE @]

\* a removal that leaves the vote log as it is
RemovedArtistKeepingLog(c, history, artist_name) ==
    [c EXCEPT !.artists = WithoutArtist(c.artists, artist_name, 1),
              !.artist_metadata = Del(@, artist_name),
              !.votes = Del(@, artist_name)]

\* the competition record after remove_artist
RemovedArtist(c, history, artist_name) ==
    [c EXCEPT !.artists = WithoutArtist(c.artists, artist_name, 1),
              !.artist_metadata = Del(@, artist_name),
              !.votes = Del(@, artist_name),
              !.vote_log = ClearVoters(@, history, artist_name, 1)]

remove_artist ==
    \E id \in Ids, caller \in Callers, artist_name \in Names :
        LET from == caller[1]
            err == RemoveError(id, from, caller[2], artist_name)
            c == storage[id]
            comp_history == GetOr(vote_hist, id, <<>>)
            addr == FindAddr(c.artists, artist_name, 1)
        IN  IF err # "" THEN Fails("remove_artist")
            ELSE /\ storage' = Put(storage, id, RemovedArtist(c, comp_history, artist_name))
                 /\ vote_hist' = Put(vote_hist, id, WithoutRecordsOf(comp_history, artist_name, 1))
                 /\ artist_info' = Del(artist_info, addr)
                 /\ last' = Call("remove_artist", id, from, artist_name, FALSE)
                 /\ events' = <<>>
                 /\ xfers' = <<>>
                 /\ UNCHANGED <<now, admin1, admin2, comp_list, ghost>>

\* -------------------------------------------------------- delete_competition
DeleteError(id, from, auth, d, ok) ==
    IF ~Has(storage, id) THEN "unwrap"
    ELSE IF ~IsAdmin(from) THEN "Only admins can delete"
    ELSE IF ~auth THEN "require_auth"
    ELSE IF storage[id].pot > 0 /\ d = Failed THEN "token query failed"
    ELSE IF storage[id].pot > 0 /\ ~ok THEN "transfer failed"
    ELSE ""

\* what a delete_competition that returns does, in program order; the refund
\* is made only of a positive pot
DeleteEvents(pot) ==
    <<"remove comp">>
    \o (IF pot > 0 THEN <<"token.decimals", "token.transfer">> ELSE <<>>)
    \o <<"store comp_list", "store vote_hist">>

delete_competition ==
    \E id \in Ids, caller \in Callers, d \in TokenDecimals \cup {Failed}, ok \in BOOLEAN :
        LET from == caller[1]
            err == DeleteError(id, from, caller[2], d, ok)
            c == storage[id]
        IN  IF err # "" THEN Fails("delete_competition")
            ELSE /\ storage' = Del(storage, id)
                 /\ comp_list' = WithoutId(comp_list, id, 1)
                 /\ vote_hist' = Del(vote_hist, id)
                 /\ last' = Call("delete_competition", id, from, c.pot, FALSE)
                 /\ events' = DeleteEvents(c.pot)
                 /\ xfers' = IF c.pot > 0 THEN <<Transfer(from, c.pot, Pow10(d), TRUE)>>
                             ELSE <<>>
                 /\ UNCHANGED <<now, admin1, admin2, artist_info, ghost>>

\* --------------------------------------------------------------- pay_winners
\* a payout that finalizes on every call
PayAlwaysFinalizes(c) == TRUE

\* if !comp.finalized { Self::internal_finalize(&env, &mut comp); ... }
PayNeedsFinalize(c) == ~c.finalized

\* a payout guard that forgets the winner
EmptyPotOnly(c) == c.pot = 0

\* if comp.pot == 0 || comp.winner.is_none() { return; }
NothingToPay(c) == c.pot = 0 \/ c.winner = None

\* a time check that lets the payout run at vote_end itself
PayErrorLoose(id) ==
    IF ~Has(storage, id) THEN "unwrap"
    ELSE IF ~(now >= storage[id].vote_end) THEN "Voting still active"
    ELSE ""

\* get(&id).unwrap(); assert!(now > comp.vote_end, "Voting still active")
PayError(id) ==
    IF ~Has(storage, id) THEN "unwrap"
    ELSE IF ~(now > storage[id].vote_end) THEN "Voting still active"
    ELSE ""

pay_winners ==
    \E id \in Ids :
        IF PayError(id) # "" THEN Fails("pay_winners")
        ELSE LET c0 == storage[id]
                 fin == PayNeedsFinalize(c0)
                 c == IF fin THEN internal_finalize(c0) ELSE c0
                 info == IF fin THEN FinalInfo(c0, artist_info) ELSE artist_info
             IN  /\ artist_info' = info
                 /\ finals' = [finals EXCEPT ![id] = IF fin THEN @ + 1 ELSE @]
                 /\ UNCHANGED <<now, admin1, admin2, comp_list, vote_hist, accepted>>
                 /\ IF NothingToPay(c)
                    THEN /\ storage' = Put(storage, id, c)
                         /\ last' = Call("pay_winners", id, None, None, FALSE)
                         /\ events' = <<>>
                         /\ xfers' = <<>>
                         /\ UNCHANGED passes
                    ELSE \E d \in TokenDecimals \cup {Failed} :
                           IF d = Failed
                           THEN /\ storage' = Put(storage, id, c)
                                /\ last' = Call("pay_winners", id, None, None, FALSE)
                                /\ events' = <<>>
                                /\ xfers' = <<>>
                                /\ UNCHANGED passes
                           ELSE \E out \in [1..MaxAttempts(c) -> BOOLEAN] :
                                /\ passes[id] < MaxPasses
                                /\ storage' = Put(storage, id,
                                                  [c EXCEPT !.pot = PotAfterPass(c.pot)])
                                /\ passes' = [passes EXCEPT ![id] = @ + 1]
                                /\ last' = Call("pay_winners", id, None, None, TRUE)
                                /\ events' = <<>>
                                /\ xfers' = Distribute(c, Pow10(d), out)

\* ---------------------------------------------------- get_active_competitions
\* a listing that finalizes every competition whose voting has ended, again
ActiveAlwaysFinalizes(c, t) == t > c.vote_end

\* a listing that leaves every finalization to pay_winners
ActiveNeverFinalizes(c, t) == FALSE

\* if !comp.finalized && now > comp.vote_end { Self::internal_finalize(...) }
ActiveNeedsFinalize(c, t) == ~c.finalized /\ t > c.vote_end

RECURSIVE ActiveLoop(_, _, _)
\* for id in competition_ids.iter(): finalize and save each competition that is due
ActiveLoop(ids, i, st) ==
    IF i > Len(ids) THEN st
    ELSE LET id == ids[i]
         IN  IF Has(st.storage, id) /\ ActiveNeedsFinalize(st.storage[id], now)
             THEN ActiveLoop(ids, i + 1,
                    [storage |-> Put(st.storage, id, internal_finalize(st.storage[id])),
                     info |-> FinalInfo(st.storage[id], st.info),
                     finals |-> [st.finals EXCEPT ![id] = @ + 1]])
             ELSE ActiveLoop(ids, i + 1, st)

get_active_competitions ==
    LET st == ActiveLoop(comp_list, 1,
                         [storage |-> storage, info |-> artist_info, finals |-> finals])
    IN  /\ storage' = st.storage
        /\ artist_info' = st.info
        /\ finals' = st.finals
        /\ last' = Call("get_active_competitions", None, None, None, FALSE)
        /\ events' = <<>>
        /\ xfers' = <<>>
        /\ UNCHANGED <<now, admin1, admin2, comp_list, vote_hist, accepted, passes>>

\* ------------------------------------------------------------- plain reads
\* get_competition: env.storage().instance().get(&id).unwrap(), nothing written
get_competition ==
    \E id \in Ids :
        IF ~Has(storage, id) THEN Fails("get_competition")
        ELSE /\ last' = Call("get_competition", id, None, None, FALSE)
             /\ events' = <<>>
             /\ xfers' = <<>>
             /\ UNCHANGED <<now, store, ghost>>

\* a ranking that flags its first entry whatever its votes
RankingsFirstFlagged(c) ==
    LET av == SortedVotes(c.artists, c.votes)
    IN  [i \in 1..Len(av) |->
            [artist |-> av[i][1], votes |-> av[i][2], rank |-> i, is_winner |-> (i = 1)]]

\* get_winner's result: the ranking, one entry per submitted artist
Rankings(c) ==
    LET av == SortedVotes(c.artists, c.votes)
    IN  [i \in 1..Len(av) |->
            [artist |-> av[i][1], votes |-> av[i][2], rank |-> i,
             is_winner |-> (i = 1 /\ av[i][2] > 0)]]

get_winner ==
    \E id \in Ids :
        IF ~Has(storage, id) THEN Fails("get_winner")
        ELSE /\ last' = Call("get_winner", id, None, Rankings(storage[id]), FALSE)
             /\ events' = <<>>
             /\ xfers' = <<>>
             /\ UNCHANGED <<now, store, ghost>>

Next ==
    \/ Tick
    \/ create_competition
    \/ delete_competition
    \/ remove_artist
    \/ submit_art
    \/ update_submission_metadata
    \/ add_artist_info
    \/ vote
    \/ fund_pot
    \/ pay_winners
    \/ get_active_competitions
    \/ get_competition
    \/ get_winner

Spec == Init /\ [][Next]_vars

\* ---------------------------------------------------------- update_admins
UpdateAdminsError(from, auth) ==
    IF ~IsAdmin(from) THEN "Only admins can update admins"
    ELSE IF ~auth THEN "require_auth"
    ELSE ""

update_admins ==
    \E caller \in Callers, upd \in AdminUpdates :
        LET from == caller[1]
        IN  IF UpdateAdminsError(from, caller[2]) # "" THEN Fails("update_admins")
            ELSE /\ admin1' = IF upd[1] # None THEN upd[1] ELSE admin1
                 /\ admin2' = IF upd[2] # None THEN upd[2] ELSE admin2
                 /\ last' = Call("update_admins", None, from, None, FALSE)
                 /\ events' = <<>>
                 /\ xfers' = <<>>
                 /\ UNCHANGED <<now, storage, comp_list, vote_hist, artist_info, ghost>>

\* -------------------------------------------------- migrate_single_artist
MigrateError(from, auth) ==
    IF ~IsAdmin(from) THEN "Only admins can migrate artist info"
    ELSE IF ~auth THEN "require_auth"
    ELSE ""

migrate_single_artist ==
    \E caller \in Callers, m \in Migrations :
        LET from == caller[1]
            artist_address == m[1]
        IN  IF MigrateError(from, caller[2]) # "" THEN Fails("migrate_single_artist")
            ELSE /\ artist_info' = Put(artist_info, artist_address,
                        [registered |-> TRUE, name |-> m[2],
                         competitions_participated |-> 0, competitions_won |-> 0])
                 /\ last' = Call("migrate_single_artist", None, from, artist_address, FALSE)
                 /\ events' = <<>>
                 /\ xfers' = <<>>
                 /\ UNCHANGED <<now, admin1, admin2, storage, comp_list, vote_hist, ghost>>

\* ------------------------------------------------ remove_registered_artist
RemoveRegisteredError(from, auth, artist_address) ==
    IF ~IsAdmin(from) THEN "Only admins can remove registered artists"
    ELSE IF ~auth THEN "require_auth"
    ELSE IF ~Has(artist_info, artist_address) THEN "Artist not found in registry"
    ELSE ""

remove_registered_artist ==
    \E caller \in Callers, artist_address \in Addr :
        LET from == caller[1]
        IN  IF RemoveRegisteredError(from, caller[2], artist_address) # ""
            THEN Fails("remove_registered_artist")
            ELSE /\ artist_info' = Del(artist_info, artist_address)
                 /\ last' = Call("remove_registered_artist", None, from, artist_address, FALSE)
                 /\ events' = <<>>
                 /\ xfers' = <<>>
                 /\ UNCHANGED <<now, admin1, admin2, storage, comp_list, vote_hist, ghost>>

\* ------------------------------------------------------ update_artist_info
UpdateInfoError(from, auth, name) ==
    IF ~auth THEN "require_auth"
    ELSE IF ~Has(artist_info, from) THEN "Artist info not found"
    ELSE IF name # None /\ \E a \in DOMAIN artist_info :
                              a # from /\ artist_info[a].name = name
         THEN "Artist name already exists"
    ELSE ""

update_artist_info ==
    \E caller \in ProfileCallers, name \in NewProfileNames \cup {None} :
        LET from == caller[1]
        IN  IF UpdateInfoError(from, caller[2], name) # "" THEN Fails("update_artist_info")
            ELSE /\ artist_info' = Put(artist_info, from,
                        [artist_info[from] EXCEPT !.name = IF name # None THEN name ELSE @])
                 /\ last' = Call("update_artist_info", None, from, name, FALSE)
                 /\ events' = <<>>
                 /\ xfers' = <<>>
                 /\ UNCHANGED <<now, admin1, admin2, storage, comp_list, vote_hist, ghost>>

\* ------------------------------------------- administration specification
\* The admin rotation, the artist registry and the eligibility read together
\* with the competition lifecycle up to finalization; the pot stays empty, so
\* no token moves.
NextAdmin ==
    \/ Tick
    \/ update_admins
    \/ create_competition
    \/ delete_competition
    \/ remove_artist
    \/ remove_registered_artist
    \/ migrate_single_artist
    \/ submit_art
    \/ add_artist_info
    \/ update_artist_info
    \/ vote
    \/ check_eligibility_call
    \/ get_active_competitions

SpecAdmin == Init /\ [][NextAdmin]_vars

\* ------------------------------------------------- payout specification
\* The ranking, finalization and distribution code applied to every tally of up
\* to four artists (one more than the share schedule has places): the states a
\* competition can be in when its voting window has just closed, after
\* MaxVotes or fewer votes per artist (each by a voter of its own) and any
\* funding of the pot.
PayArtists == <<<<"a1", "A">>, <<"a3", "B">>, <<"a2", "C">>, <<"a4", "D">>>>
VoterPool == <<"v1", "v2", "v3", "v4", "v5", "v6", "v7", "v8", "v9", "v10", "v11", "v12",
               "v13", "v14", "v15", "v16">>
PayPots == 0..MaxPayPot
\* a pot of which every schedule percentage is a whole amount
LargePots == {100}
\* the pots tried with n artists: every small pot while the schedule has a
\* place for each artist, the large pot always
PotsFor(n) == IF n < Len(PayArtists) THEN PayPots \cup LargePots ELSE LargePots

\* the k-th voter of the i-th artist
VoterOf(i, k) == VoterPool[(i - 1) * MaxVotes + k]

RECURSIVE TallyHistory(_, _, _, _)
\* the vote history of a tally: the votes for the i-th artist on, from its k-th
TallyHistory(tally, t, i, k) ==
    IF i > Len(tally) THEN <<>>
    ELSE IF k > tally[i] THEN TallyHistory(tally, t, i + 1, 1)
    ELSE <<[voter |-> VoterOf(i, k), artist |-> PayArtists[i][2], timestamp |-> t]>>
         \o TallyHistory(tally, t, i, k + 1)

\* the competition left by the submissions of the first Len(tally) artists,
\* the votes of the tally and a pot funded to p
TallyCompetition(tally, p) ==
    LET n == Len(tally)
        c == NewCompetition(0, 1, 2, 3, 1)
        h == TallyHistory(tally, c.vote_start, 1, 1)
    IN  [c EXCEPT
           !.artists = [i \in 1..n |-> PayArtists[i]],
           !.artist_metadata =
               [a \in {PayArtists[i][2] : i \in 1..n} |->
                   <<[artwork_name |-> "w1", description |-> "d1", img_url |-> "u1"]>>],
           !.votes = [a \in {PayArtists[i][2] : i \in {j \in 1..n : tally[j] > 0}} |->
                        tally[CHOOSE i \in 1..n : PayArtists[i][2] = a]],
           !.vote_log = [v \in {h[j].voter : j \in 1..Len(h)} |->
                           h[CHOOSE j \in 1..Len(h) : h[j].voter = v].artist],
           !.pot = p]

InitPayout ==
    \E n \in 0..Len(PayArtists) : \E tally \in [1..n -> 0..MaxVotes], p \in PotsFor(n) :
        /\ now = 4
        /\ admin1 = "a1"
        /\ admin2 = "a2"
        /\ storage = [i \in Ids |-> TallyCompetition(tally, p)]
        /\ comp_list = <<"c1">>
        /\ vote_hist = [i \in Ids |-> TallyHistory(tally, 2, 1, 1)]
        /\ artist_info = EmptyMap
        /\ last = Call("tick", None, None, None, FALSE)
        /\ events = <<>>
        /\ xfers = <<>>
        /\ accepted = [i \in Ids |-> DOMAIN storage[i].vote_log]
        /\ passes = [i \in Ids |-> 0]
        /\ finals = [i \in Ids |-> 0]

NextPayout ==
    \/ pay_winners
    \/ get_active_competitions
    \/ get_winner

SpecPayout == InitPayout /\ [][NextPayout]_vars

\* ------------------------------------------------ entries and submissions
\* (artwork_name, description, img_url) of the works offered to submit_art
Artworks == {<<"w1", "d1", "u1">>, <<"w2", "d2", "u2">>}

\* submit_art with any of the works
submit_artwork ==
    \E id \in Ids, sub \in Submissions, work \in Artworks :
        SubmitArt(id, sub, work[1], work[2], work[3])

NextEntries ==
    \/ Tick
    \/ create_competition
    \/ delete_competition
    \/ submit_artwork
    \/ remove_artist

SpecEntries == Init /\ [][NextEntries]_vars

\* ------------------------------------------------ finalization under fair calls
NextLive ==
    \/ Tick
    \/ create_competition
    \/ delete_competition
    \/ submit_art
    \/ vote
    \/ pay_winners
    \/ get_active_competitions

\* the contract's callers go on calling pay_winners or get_active_competitions
SpecLive ==
    Init /\ [][NextLive]_vars /\ WF_vars(pay_winners \/ get_active_competitions)

\* ------------------------------------------------ 64-bit monetary scaling
\* u64 values at their full width: a number is the little-endian sequence of
\* its limbs, each below LimbBase; a u64 has U64Limbs of them.
LimbBase == 256
U64Limbs == 8

RECURSIVE Carry(_, _)
\* the limbs of the number whose column sums are cols, c carried in
Carry(cols, c) ==
    IF cols = <<>>
    THEN IF c = 0 THEN <<>> ELSE <<c % LimbBase>> \o Carry(<<>>, c \div LimbBase)
    ELSE <<(cols[1] + c) % LimbBase>> \o Carry(Tail(cols), (cols[1] + c) \div LimbBase)

Limb(a, i) == IF i >= 1 /\ i <= Len(a) THEN a[i] ELSE 0

RECURSIVE Column(_, _, _, _)
\* the sum of a[j] * b[k + 1 - j] over j >= i: column k of the product
Column(a, b, k, i) ==
    IF i > Len(a) THEN 0 ELSE a[i] * Limb(b, k + 1 - i) + Column(a, b, k, i + 1)

\* a * b in the naturals
Product(a, b) == Carry([k \in 1..(Len(a) + Len(b)) |-> Column(a, b, k, 1)], 0)

RECURSIVE Quotient(_, _, _, _)
\* the limbs 1..i of (r * LimbBase^i + a[1..i]) / m, for a divisor m below 2^23
Quotient(a, m, i, r) ==
    IF i = 0 THEN <<>>
    ELSE Quotient(a, m, i - 1, (r * LimbBase + a[i]) % m)
            \o <<(r * LimbBase + a[i]) \div m>>

\* the value is at most u64::MAX
Fits(a) == \A i \in (U64Limbs + 1)..Len(a) : a[i] = 0

\* the value modulo 2^64, as a u64
Wrapped(a) == [i \in 1..U64Limbs |-> Limb(a, i)]

\* a small number as a u64
Wide(n) == Wrapped(Carry(<<n>>, 0))

IsZero(a) == \A i \in 1..Len(a) : a[i] = 0

RECURSIVE Pow10Wide(_)
\* 10^decimals in the naturals
Pow10Wide(decimals) ==
    IF decimals = 0 THEN <<1>> ELSE Product(<<10>>, Pow10Wide(decimals - 1))

\* checked_pow / checked_mul: None (some = FALSE) when the result exceeds u64::MAX
Checked(x) == 
    CHOOSE r \in {[some |-> Fits(v), val |-> Wrapped(v)] : v \in {x}} : TRUE

\* 10u64.checked_pow(decimals)
checked_pow(decimals) == Checked(Pow10Wide(decimals))

\* a.checked_mul(b)
checked_mul(a, b) == Checked(Product(a, b))

\* the operators `*` and `pow` of u64: on overflow they panic (some = FALSE)
\* in a build with overflow checks and wrap modulo 2^64 in a build without
Plain(x, overflow_checks) ==
    CHOOSE r \in {[some |-> ~overflow_checks \/ Fits(v), val |-> Wrapped(v)] : v \in {x}} : TRUE

\* whole-unit amounts, up to u64::MAX
WideAmounts ==
    {Wide(5), Wide(1000000),
     <<0, 0, 0, 0, 1, 0, 0, 0>>,                     \* 2^32
     <<0, 0, 0, 0, 0, 0, 0, 1>>,                     \* 2^56
     <<0, 0, 0, 0, 0, 0, 0, 128>>,                   \* 2^63
     <<255, 255, 255, 255, 255, 255, 255, 255>>}     \* u64::MAX

WideDecimals == {0, 7, 19, 20}           \* answers of the token's decimals()
WideShares == {50, 30, 20}               \* share_per_artist of an untied place

\* a scaling that returned, with the transfer it issued
Scaled(op, arg, x) ==
    /\ last' = Call(op, "c1", None, arg, FALSE)
    /\ xfers' = x
    /\ events' = <<>>
    /\ UNCHANGED <<now, store, ghost>>

\* fund_pot's conversion of amount to minor units
fund_pot_scaling ==
    \E amount \in WideAmounts, decimals \in WideDecimals :
        \A multiplier \in {checked_pow(decimals)} :
        \A amount_stroop \in {checked_mul(amount, multiplier.val)} :
            IF ~multiplier.some \/ ~amount_stroop.some THEN Fails("fund_pot")
            ELSE Scaled("fund_pot", [pot |-> amount, decimals |-> decimals],
                        <<[to |-> Contract, amt |-> amount,
                           stroop |-> amount_stroop.val, ok |-> TRUE]>>)

\* delete_competition's conversion of the refunded pot (pot > 0) to minor units
delete_competition_scaling ==
    \E pot \in WideAmounts, decimals \in WideDecimals :
        /\ ~IsZero(pot)
        /\ \A multiplier \in {checked_pow(decimals)} :
           \A amount \in {checked_mul(pot, multiplier.val)} :
               IF ~multiplier.some \/ ~amount.some THEN Fails("delete_competition")
               ELSE Scaled("delete_competition", [pot |-> pot, decimals |-> decimals],
                           <<[to |-> "a1", amt |-> pot,
                              stroop |-> amount.val, ok |-> TRUE]>>)

\* pay_winners' conversion of one primary payment (pot > 0) to minor units
pay_winners_scaling ==
    \E pot \in WideAmounts, share_per_artist \in WideShares, decimals \in WideDecimals,
       overflow_checks \in BOOLEAN, ok \in BOOLEAN :
        /\ ~IsZero(pot)
        /\ \A multiplier \in {Plain(Pow10Wide(decimals), overflow_checks)} :
           \A product \in {Plain(Product(pot, Wide(share_per_artist)), overflow_checks)} :
           \A amt_lumen \in {Wrapped(Quotient(product.val, 100, U64Limbs, 0))} :
           \A amt_stroop \in {Plain(Product(amt_lumen, multiplier.val), overflow_checks)} :
               IF ~multiplier.some \/ ~product.some \/ ~amt_stroop.some
               THEN Fails("pay_winners")
               ELSE Scaled("pay_winners",
                           [pot |-> pot, share |-> share_per_artist, decimals |-> decimals],
                           IF IsZero(amt_stroop.val) THEN <<>>
                           ELSE <<[to |-> "a1", amt |-> amt_lumen,
                                   stroop |-> amt_stroop.val, ok |-> ok]>>)

NextWidth ==
    \/ fund_pot_scaling
    \/ delete_competition_scaling
    \/ pay_winners_scaling

SpecWidth == Init /\ [][NextWidth]_vars

\* ================================================================ properties
RECURSIVE SumOk(_, _)
\* the whole-unit amounts of the transfers of x, from the i-th on, that succeeded
SumOk(x, i) ==
    IF i > Len(x) THEN 0 ELSE (IF x[i].ok THEN x[i].amt ELSE 0) + SumOk(x, i + 1)

History(id) == GetOr(vote_hist, id, <<>>)
VotesOf(c, i) == GetOr(c.votes, c.artists[i][2], 0)
NoVotes(c) == \A i \in 1..Len(c.artists) : VotesOf(c, i) = 0
Finalizers == {"pay_winners", "get_active_competitions"}
StatusReads == {"pay_winners", "get_active_competitions", "get_competition", "get_winner"}

\* C1 (as amended): a voter has at most one VoteHistory record per competition,
\* and as long as the voter's vote is in the competition's vote_log every
\* authorized vote call by that voter, for any artist and any token answer,
\* is rejected with "Not eligible to vote".
C1_OneVotePerLoggedVoter ==
    \A id \in DOMAIN storage :
        /\ \A v \in Addr :
              Cardinality({i \in 1..Len(History(id)) : History(id)[i].voter = v}) <= 1
        /\ \A v \in DOMAIN storage[id].vote_log, artist \in Names,
              tok \in TokenDecimals \X RawBalances :
              VoteError(id, v, TRUE, artist, tok[1], tok[2]) = "Not eligible to vote"

\* C1 witness: a vote call was just rejected while a2's vote is logged, the
\* voting window is open and a2's balance would suffice.
C1_Witness ==
    /\ last.op = "vote" /\ ~last.ok
    /\ \E id \in DOMAIN storage :
          /\ "a2" \in DOMAIN storage[id].vote_log
          /\ Len(History(id)) = 1
          /\ check_voting_eligibility(storage[id], now, "a2", 1, <<0, 10>>).voting_active
          /\ check_voting_eligibility(storage[id], now, "a2", 1, <<0, 10>>).current_balance
                >= storage[id].min_vote_tokens

\* C1 as stated: once a voter's vote has been accepted in a competition, no
\* later vote call by that voter in that competition is accepted.
C1_NoSecondVoteEver ==
    [][\A id \in Ids : \A v \in accepted[id] :
          ~(last'.op = "vote" /\ last'.ok /\ last'.id = id /\ last'.from = v)]_vars

\* C2: once a stored competition is finalized, every step that keeps it stored
\* keeps it finalized and keeps its winner.
C2_WinnerFixedOnceFinalized ==
    [][\A id \in (DOMAIN storage) \cap (DOMAIN storage') :
          storage[id].finalized =>
              /\ storage'[id].finalized
              /\ storage'[id].winner = storage[id].winner]_vars

\* C2 witness: the winning artist was just removed from a finalized competition,
\* and is still its winner.
C2_Witness ==
    /\ last.op = "remove_artist" /\ last.ok
    /\ Has(storage, last.id)
    /\ storage[last.id].finalized
    /\ storage[last.id].winner = last.arg

\* C3: a pay_winners or get_active_competitions call on an already finalized
\* competition does not run internal_finalize: the run count, the artist
\* registry, winner and finalized are as before.
C3_FinalizationIdempotent ==
    [][\A id \in DOMAIN storage :
          (storage[id].finalized /\ last'.op \in Finalizers /\ last'.ok) =>
              /\ finals'[id] = finals[id]
              /\ artist_info' = artist_info
              /\ storage'[id].finalized
              /\ storage'[id].winner = storage[id].winner]_vars

\* C3 witness: get_active_competitions just ran on a competition that was
\* finalized and paid out before, whose winner has since been removed.
C3_Witness ==
    /\ last.op = "get_active_competitions"
    /\ \E id \in DOMAIN storage :
          /\ storage[id].finalized
          /\ passes[id] >= 1
          /\ finals[id] = 1
          /\ storage[id].winner # None
          /\ ~HasArtist(storage[id].artists, storage[id].winner)

\* C4: in one pay_winners call the amounts of the transfers that succeeded,
\* primary and leftover together, sum to at most the pot the call started with.
C4_PaidAtMostPot ==
    [][(last'.op = "pay_winners" /\ last'.ok) =>
          SumOk(xfers', 1) <= storage[last'.id].pot]_vars

\* C4 witness: a distribution pass over three artists with votes in which the
\* pot is 12, a primary transfer failed, a leftover transfer succeeded and the
\* completed transfers add up to less than the pot.
C4_Witness ==
    /\ last.op = "pay_winners" /\ last.pass
    /\ Len(xfers) = 6
    /\ {xfers[k].to : k \in 1..3} = {"a1", "a2", "a3"}
    /\ ~xfers[1].ok
    /\ xfers[6].ok
    /\ SumOk(xfers, 1) > 0
    /\ SumOk(xfers, 1) < 12

\* C5 as stated: whenever a stored competition's pot goes down, it goes down by
\* no more than the amounts of the transfers that completed in that step.
C5_PotFallsOnlyByCompletedTransfers ==
    [][\A id \in (DOMAIN storage) \cap (DOMAIN storage') :
          storage'[id].pot < storage[id].pot =>
              storage[id].pot - storage'[id].pot <= SumOk(xfers', 1)]_vars

\* C6 as stated: a competition sees at most one distribution pass on a
\* non-empty pot.
C6_AtMostOnePass == \A id \in Ids : passes[id] <= 1

\* C7: after a pay_winners call in which the distribution pass ran, the stored
\* pot is 0, whatever transfers failed.
C7_PotZeroAfterPass ==
    (last.op = "pay_winners" /\ last.pass) =>
        (Has(storage, last.id) /\ storage[last.id].pot = 0)

\* C7 witness: a pass just completed in which every transfer failed.
C7_Witness ==
    /\ last.op = "pay_winners" /\ last.pass
    /\ Len(xfers) >= 2
    /\ \A k \in 1..Len(xfers) : ~xfers[k].ok
    /\ storage[last.id].pot = 0

\* C8: finalizing a competition none of whose artists has a vote sets winner =
\* None; and on a finalized competition without winner, pay_winners attempts
\* no transfer and leaves pot as it is, no step lowers pot, and the only step
\* that takes the competition away is delete_competition, which refunds the
\* whole pot to the admin who called it.
C8_NoWinnerPotKept ==
    [][\A id \in DOMAIN storage :
          LET c == storage[id]
          IN  /\ (~c.finalized /\ NoVotes(c) /\ Has(storage', id)
                    /\ storage'[id].finalized) => storage'[id].winner = None
              /\ (c.finalized /\ c.winner = None) =>
                    IF Has(storage', id)
                    THEN /\ storage'[id].pot >= c.pot
                         /\ storage'[id].pot > c.pot => last'.op = "fund_pot"
                         /\ last'.op = "pay_winners" =>
                               (xfers' = <<>> /\ storage'[id].pot = c.pot)
                    ELSE /\ last'.op = "delete_competition" /\ last'.ok
                         /\ IsAdmin(last'.from)
                         /\ IF c.pot > 0
                            THEN /\ Len(xfers') = 1
                                 /\ xfers'[1].to = last'.from
                                 /\ xfers'[1].amt = c.pot
                                 /\ xfers'[1].ok
                            ELSE xfers' = <<>>]_vars

\* C8 witness: pay_winners just returned on a finalized competition that has
\* artists, no votes, no winner and a funded pot.
C8_Witness ==
    /\ last.op = "pay_winners" /\ last.ok
    /\ storage[last.id].finalized
    /\ storage[last.id].winner = None
    /\ Len(storage[last.id].artists) > 0
    /\ NoVotes(storage[last.id])
    /\ storage[last.id].pot > 0
    /\ finals[last.id] = 1

\* C9 as stated: after pay_winners or any status read (get_active_competitions,
\* get_competition, get_winner) made after vote_end, the competition read is
\* stored as finalized.
C9_ReadAfterEndFinalizes ==
    \A id \in DOMAIN storage :
        (/\ last.op \in StatusReads /\ last.ok
         /\ last.id \in {id, None}
         /\ now > storage[id].vote_end) => storage[id].finalized

\* the winner the finalization transition is to set: None without artists or
\* without votes, else the earliest-submitted artist among those with the
\* highest vote count
TopArtist(c) ==
    IF Len(c.artists) = 0 \/ NoVotes(c) THEN None
    ELSE LET i == CHOOSE k \in 1..Len(c.artists) :
                     /\ \A j \in 1..Len(c.artists) : VotesOf(c, j) <= VotesOf(c, k)
                     /\ \A j \in 1..(k - 1) : VotesOf(c, j) < VotesOf(c, k)
         IN  c.artists[i][2]

\* C10: every run of internal_finalize leaves the competition finalized, and
\* the step that finalizes a competition sets winner to None when there is no
\* artist or the top artist has 0 votes, and otherwise to the earliest-submitted
\* artist among those with the highest vote count.
C10_FinalizationSetsTopArtist ==
    [][\A id \in (DOMAIN storage) \cap (DOMAIN storage') :
          /\ finals'[id] > finals[id] => storage'[id].finalized
          /\ (~storage[id].finalized /\ storage'[id].finalized) =>
                storage'[id].winner = TopArtist(storage[id])]_vars

\* C10 witness: a competition of three artists was just finalized in which the
\* second and third are tied at two votes, ahead of the first; the winner is
\* the second.
C10_Witness ==
    /\ last.op \in Finalizers
    /\ \E id \in DOMAIN storage :
          LET c == storage[id]
          IN  /\ c.finalized
              /\ Len(c.artists) = 3
              /\ VotesOf(c, 1) = 1 /\ VotesOf(c, 2) = 2 /\ VotesOf(c, 3) = 2
              /\ c.winner = c.artists[2][2]
              /\ c.winner = "B"

\* ---- C11
\* the number of artists of c with more votes than the i-th: the schedule
\* position r at which the i-th artist's tie group starts
GroupStart(c, i) ==
    Cardinality({j \in 1..Len(c.artists) : VotesOf(c, j) > VotesOf(c, i)})

\* the size k of the i-th artist's tie group
GroupSize(c, i) ==
    Cardinality({j \in 1..Len(c.artists) : VotesOf(c, j) = VotesOf(c, i)})

RECURSIVE ScheduleSum(_, _, _)
\* the schedule percentages at the 0-based positions lo..hi-1 that lie inside
\* the schedule
ScheduleSum(share, lo, hi) ==
    IF lo >= hi THEN 0
    ELSE (IF lo < Len(share) THEN share[lo + 1] ELSE 0) + ScheduleSum(share, lo + 1, hi)

\* floor(pot * floor(combined_share / k) / 100) for the i-th artist's group
GroupPay(c, i) ==
    LET r == GroupStart(c, i)
        k == GroupSize(c, i)
    IN  (c.pot * (ScheduleSum(c.share_ratio, r, r + k) \div k)) \div 100

\* the artists the share-based payments pay: those with votes and a non-zero amount
PrimaryPaid(c) ==
    {i \in 1..Len(c.artists) : VotesOf(c, i) > 0 /\ GroupPay(c, i) > 0}

\* the place of the i-th artist among the share-based payments: by votes
\* descending, then by submission order
PrimaryPlace(c, paid, i) ==
    1 + Cardinality({j \in paid :
                        \/ VotesOf(c, j) > VotesOf(c, i)
                        \/ (VotesOf(c, j) = VotesOf(c, i) /\ j < i)})

\* C11: in a distribution pass every artist with votes is sent, in ranking
\* order and before any leftover payment, floor(pot * floor(combined_share / k)
\* / 100), where k is the size of the artist's tie group, r the schedule
\* position at which the group starts and combined_share the sum of the
\* schedule percentages at positions r..r+k-1 that lie inside the schedule
\* (amounts of zero are not sent); and for votes A=3, B=3, C=1 with pot 100 and
\* every transfer succeeding the transfers are exactly 40, 40 and 20.
C11_TieGroupShares ==
    [][(last'.op = "pay_winners" /\ last'.pass) =>
          \A c \in {storage[last'.id]} : \A xs \in {xfers'} : \A paid \in {PrimaryPaid(c)} :
              /\ Len(xs) >= Cardinality(paid)
              /\ \A i \in paid : \A x \in {xs[PrimaryPlace(c, paid, i)]} :
                    /\ x.to = c.artists[i][1]
                    /\ x.amt = GroupPay(c, i)
              /\ (/\ Len(c.artists) = 3 /\ c.pot = 100
                  /\ VotesOf(c, 1) = 3 /\ VotesOf(c, 2) = 3 /\ VotesOf(c, 3) = 1
                  /\ \A k \in 1..Len(xs) : xs[k].ok)
                 => (/\ [k \in 1..Len(xs) |-> <<xs[k].to, xs[k].amt>>]
                          = <<<<"a1", 40>>, <<"a3", 40>>, <<"a2", 20>>>>
                     /\ SumOk(xs, 1) = 100
                     /\ c.pot - SumOk(xs, 1) = 0)]_vars

\* C11 witness: the pass of the scenario has just run: A and B at three votes
\* were sent 40 each, C at one vote 20, and every transfer succeeded.
C11_Witness ==
    /\ last.op = "pay_winners" /\ last.pass
    /\ LET c == storage[last.id]
       IN  /\ Len(c.artists) = 3
           /\ VotesOf(c, 1) = 3 /\ VotesOf(c, 2) = 3 /\ VotesOf(c, 3) = 1
    /\ Len(xfers) = 3
    /\ \A k \in 1..3 : xfers[k].ok
    /\ xfers[1].amt = 40 /\ xfers[2].amt = 40 /\ xfers[3].amt = 20

\* ---- C12
\* floor(raw_balance / 10^decimals) >= min for a raw balance hi * 2^64 + lo: with hi
\* > 0 the quotient is at least 2^64 \div 10^d, far above every minimum of MinTokens
\* for the decimals of TokenDecimals
WholeUnitsAtLeast(bal, d, min) ==
    IF bal[1] > 0 THEN TRUE ELSE bal[2] \div Pow10(d) >= min

\* C12 as stated: for every stored competition, voter and token answer,
\* check_voting_eligibility returns can_vote = (vote_start <= now <= vote_end)
\* and (floor(raw_balance / 10^decimals) >= min_vote_tokens) and (voter not in
\* vote_log); the call changes no state; and vote records a vote only inside
\* the voting window and for a voter who is not in vote_log.
C12_EligibilityByWholeBalance ==
    [][/\ \A id \in DOMAIN storage, voter \in Addr, tok \in TokenDecimals \X RawBalances :
            LET c == storage[id]
            IN  check_voting_eligibility(c, now, voter, tok[1], tok[2]).can_vote
                = (/\ c.vote_start <= now /\ now <= c.vote_end
                   /\ WholeUnitsAtLeast(tok[2], tok[1], c.min_vote_tokens)
                   /\ voter \notin DOMAIN c.vote_log)
       /\ (last'.op = "check_voting_eligibility") => (store' = store)
       /\ (last'.op = "vote" /\ last'.ok) =>
             LET c == storage[last'.id]
             IN  /\ c.vote_start <= now /\ now <= c.vote_end
                 /\ last'.from \notin DOMAIN c.vote_log]_vars

\* ---- C13
\* the place of the artist called name in the submission list
SubmittedAt(c, name) == CHOOSE i \in 1..Len(c.artists) : c.artists[i][2] = name

\* C13: the ranking get_winner returns has exactly one entry per submitted
\* artist, carrying that artist's tally (0 when the tally has no entry); its
\* vote counts never increase down the list; and two entries with equal
\* counts stand in the order of the submission list.
C13_RankingSortedAndStable ==
    (last.op = "get_winner" /\ last.ok) =>
        \A c \in {storage[last.id]} : \A r \in {last.arg} :
            /\ Len(r) = Len(c.artists)
            /\ \A i \in 1..Len(c.artists) :
                  /\ Cardinality({k \in 1..Len(r) : r[k].artist = c.artists[i][2]}) = 1
                  /\ \A k \in 1..Len(r) :
                        r[k].artist = c.artists[i][2] => r[k].votes = VotesOf(c, i)
            /\ \A k \in 1..(Len(r) - 1) : r[k].votes >= r[k + 1].votes
            /\ \A k, l \in 1..Len(r) :
                  (k < l /\ r[k].votes = r[l].votes)
                     => SubmittedAt(c, r[k].artist) < SubmittedAt(c, r[l].artist)

\* C13 witness: get_winner has just ranked four artists with votes 1, 2, 1, 2
\* (in submission order) as B, D, A, C.
C13_Witness ==
    /\ last.op = "get_winner" /\ last.ok
    /\ Len(storage[last.id].artists) = 4
    /\ [i \in 1..4 |-> VotesOf(storage[last.id], i)] = <<1, 2, 1, 2>>
    /\ [k \in 1..Len(last.arg) |-> last.arg[k].artist] = <<"B", "D", "A", "C">>

\* ---- C14
\* C14: in the ranking get_winner returns the ranks are 1..n in list order,
\* an entry is flagged is_winner iff it is the first entry and its count is
\* above zero, and so at most one entry is flagged.
C14_RanksAndWinnerFlag ==
    (last.op = "get_winner" /\ last.ok) =>
        \A r \in {last.arg} :
            /\ \A k \in 1..Len(r) : r[k].rank = k
            /\ \A k \in 1..Len(r) : r[k].is_winner <=> (k = 1 /\ r[k].votes > 0)
            /\ Cardinality({k \in 1..Len(r) : r[k].is_winner}) <= 1

\* C14 witness: get_winner has just ranked three artists none of whom has a
\* vote: there is a rank-1 entry, and no entry is flagged.
C14_Witness ==
    /\ last.op = "get_winner" /\ last.ok
    /\ Len(last.arg) = 3
    /\ last.arg[1].rank = 1 /\ last.arg[1].votes = 0
    /\ \A k \in 1..3 : ~last.arg[k].is_winner

\* ---- C15
\* artist_add_start < artist_add_end < vote_start < vote_end
StrictlyOrdered(s, e, vs, ve) == s < e /\ e < vs /\ vs < ve

\* C15: every stored competition has artist_add_start < artist_add_end <
\* vote_start < vote_end, and create_competition rejects every other
\* ordering, whoever calls and whatever the id.
C15_WindowsStrictlyOrdered ==
    /\ \A id \in DOMAIN storage :
          \A c \in {storage[id]} :
              StrictlyOrdered(c.artist_add_start, c.artist_add_end,
                              c.vote_start, c.vote_end)
    /\ \A caller \in Callers, id \in Ids, w \in Windows :
          ~StrictlyOrdered(w[1], w[2], w[3], w[4])
             => CreateError(caller[1], caller[2], id, w[1], w[2], w[3], w[4]) # ""

\* C15 witness: create_competition has just stored a competition, whose window
\* is the strictly ordered one.
C15_Witness ==
    /\ last.op = "create_competition" /\ last.ok
    /\ Has(storage, last.id)
    /\ storage[last.id].artist_add_start = 0 /\ storage[last.id].artist_add_end = 1
    /\ storage[last.id].vote_start = 2 /\ storage[last.id].vote_end = 3

\* ---- C16
AdminOps == {"update_admins", "create_competition", "delete_competition",
             "remove_artist", "remove_registered_artist"}

\* C16: a call of update_admins, create_competition, delete_competition,
\* remove_artist or remove_registered_artist that returns was made, and
\* authorized, by an identity stored as admin1 or admin2 when it was made;
\* every other call of them fails and leaves the stored state as it was. So
\* an identity that update_admins has taken out of the admin slots is refused
\* from then on, and the one put in is accepted.
C16_AdminOnly ==
    [][(last'.op \in AdminOps) =>
          IF last'.ok
          THEN /\ last'.from \in {admin1, admin2}
               /\ <<last'.from, TRUE>> \in Callers
          ELSE store' = store]_vars

\* C16 witness: update_admins has handed the first slot from a1 to a3, and a3
\* has just created a competition.
C16_Witness ==
    /\ admin1 = "a3" /\ admin2 = "a2"
    /\ last.op = "create_competition" /\ last.ok
    /\ last.from = "a3"

\* ---- C17
\* C17: a remove_artist(c, X) that returns leaves X out of c's artist list,
\* tally and vote history, and takes every voter who had voted for X out of
\* vote_log, so that inside the voting window a vote of such a voter with
\* sufficient balance for a remaining artist is accepted; the other artists,
\* their tallies, the other voters' log entries and the other history
\* records are as they were, in the same order.
C17_RemoveArtistPurges ==
    [][(last'.op = "remove_artist" /\ last'.ok) =>
          \A X \in {last'.arg} : \A c \in {storage[last'.id]} :
          \A d \in {storage'[last'.id]} : \A h \in {History(last'.id)} :
              /\ d.artists = SelectSeq(c.artists, LAMBDA p : p[2] # X)
              /\ ~HasArtist(d.artists, X)
              /\ X \notin DOMAIN d.votes
              /\ \A a \in DOMAIN c.votes : a # X => (a \in DOMAIN d.votes /\ d.votes[a] = c.votes[a])
              /\ DOMAIN d.votes \subseteq DOMAIN c.votes
              /\ vote_hist'[last'.id] = SelectSeq(h, LAMBDA r : r.artist # X)
              /\ \A v \in DOMAIN c.vote_log :
                    IF c.vote_log[v] = X
                    THEN /\ v \notin DOMAIN d.vote_log
                         /\ (d.vote_start <= now' /\ now' <= d.vote_end)
                               => \A tok \in TokenDecimals \X RawBalances :
                                     (tok[2][1] = 0
                                      /\ tok[2][2] \div Pow10(tok[1]) >= d.min_vote_tokens)
                                        => check_voting_eligibility(d, now', v, tok[1],
                                                                    tok[2]).can_vote
                    ELSE v \in DOMAIN d.vote_log /\ d.vote_log[v] = c.vote_log[v]
              /\ DOMAIN d.vote_log \subseteq DOMAIN c.vote_log]_vars

\* C17 witness: remove_artist has just removed A, for whom a2 had voted, while
\* a3's vote for B stands: a2 is out of vote_log, a3 is in it.
C17_Witness ==
    /\ last.op = "remove_artist" /\ last.ok /\ last.arg = "A"
    /\ "a2" \in accepted[last.id]
    /\ "a2" \notin DOMAIN storage[last.id].vote_log
    /\ "a3" \in DOMAIN storage[last.id].vote_log
    /\ storage[last.id].vote_log["a3"] = "B"
    /\ storage[last.id].votes = [a \in {"B"} |-> 1]
    /\ Len(History(last.id)) = 1

\* ---- C18
ProfileEdits == {"add_artist_info", "update_artist_info"}

\* C18 as stated: whenever the ArtistInfo entry of an address is created,
\* changed or removed, the step is either an add_artist_info or
\* update_artist_info call by that address, or a finalizing call that adds 1 to
\* the entry's competitions_won and changes nothing else of it.
C18_ProfileOnlyByOwnerOrFinalization ==
    [][\A a \in Addr :
          \/ /\ a \notin DOMAIN artist_info
             /\ a \notin DOMAIN artist_info'
          \/ /\ a \in DOMAIN artist_info
             /\ a \in DOMAIN artist_info'
             /\ artist_info'[a] = artist_info[a]
          \/ /\ last'.op \in ProfileEdits
             /\ last'.ok
             /\ last'.from = a
          \/ /\ last'.op \in Finalizers
             /\ a \in DOMAIN artist_info
             /\ a \in DOMAIN artist_info'
             /\ artist_info'[a] =
                   [artist_info[a] EXCEPT !.competitions_won = @ + 1]]_vars

\* ---- C19
\* competitions_won of address a, or 0 without a profile
WonBy(info, a) == IF a \in DOMAIN info THEN info[a].competitions_won ELSE 0

\* C19: whatever the order of pay_winners and get_active_competitions calls
\* after vote_end, internal_finalize runs at most once per competition: it runs
\* only in such a call and only on a competition not yet finalized, and after
\* such a call the competition is finalized with exactly one run counted; a
\* call that finds it finalized changes neither the record's winner nor any
\* profile; and the run adds exactly 1 to competitions_won of the winner's
\* address when that address has a profile, and changes no other profile.
C19_FinalizedExactlyOnce ==
    [][\A id \in (DOMAIN storage) \cap (DOMAIN storage') :
        \A c \in {storage[id]} : \A d \in {storage'[id]} :
          /\ finals'[id] <= 1
          /\ finals'[id] > finals[id] =>
                /\ finals'[id] = finals[id] + 1
                /\ last'.op \in Finalizers
                /\ ~c.finalized /\ d.finalized
                /\ now > c.vote_end
                /\ \A a \in Addr :
                      IF d.winner # None /\ a = FindAddr(c.artists, d.winner, 1)
                         /\ a \in DOMAIN artist_info
                      THEN /\ a \in DOMAIN artist_info'
                           /\ WonBy(artist_info', a) = WonBy(artist_info, a) + 1
                      ELSE WonBy(artist_info', a) = WonBy(artist_info, a)
          /\ (last'.op \in Finalizers /\ last'.ok /\ now > c.vote_end
              /\ last'.id \in {id, None}) =>
                /\ d.finalized
                /\ finals'[id] = 1
                /\ c.finalized =>
                      /\ finals'[id] = finals[id]
                      /\ d.winner = c.winner
                      /\ artist_info' = artist_info]_vars

\* C19 witness: the winner A's address a1 has a profile; a distribution pass
\* of pay_winners has run and get_active_competitions has just been called:
\* one run is counted and competitions_won is 1.
C19_Witness ==
    /\ last.op = "get_active_competitions"
    /\ \E id \in DOMAIN storage :
          /\ storage[id].finalized
          /\ storage[id].winner = "A"
          /\ passes[id] >= 1
          /\ finals[id] = 1
          /\ "a1" \in DOMAIN artist_info
          /\ artist_info["a1"].competitions_won = 1

\* ---- C20
\* C20 as stated: a pay_winners call that takes a positive pot to 0 attempted
\* at least one token transfer, and a pay_winners call on a competition none of
\* whose submitted artists has a vote leaves the pot as it was.
C20_PotZeroedOnlyWithAttempt ==
    [][(last'.op = "pay_winners" /\ last'.ok) =>
          \A c \in {storage[last'.id]} : \A d \in {storage'[last'.id]} :
              /\ (c.pot > 0 /\ d.pot = 0) => Len(xfers') >= 1
              /\ NoVotes(c) => d.pot = c.pot]_vars

\* ---- C21
\* C21 as stated: in every state, a stored finalized competition with winner
\* w has w among its submitted artists, and the ranking get_winner computes
\* for it starts with w, flagged is_winner.
C21_StoredWinnerIsRankedFirst ==
    \A id \in DOMAIN storage : \A c \in {storage[id]} :
        (c.finalized /\ c.winner # None) =>
            /\ HasArtist(c.artists, c.winner)
            /\ \A r \in {Rankings(c)} :
                  /\ Len(r) > 0
                  /\ r[1].artist = c.winner
                  /\ r[1].is_winner

\* ---- C22
RECURSIVE SumOver(_, _)
\* the sum of the counters of the artists of S in the tally votes
SumOver(votes, S) ==
    IF S = {} THEN 0
    ELSE LET a == CHOOSE x \in S : TRUE
         IN  votes[a] + SumOver(votes, S \ {a})

\* C22: for every stored competition the counters of its tally add up to the
\* number of vote_log entries and to the length of its vote history; every
\* artist named in vote_log, in the tally or in the history is a submitted
\* artist; and each vote_log entry voter -> artist has exactly one history
\* record of that voter for that artist.
C22_TallyLogHistoryAgree ==
    \A id \in DOMAIN storage : \A c \in {storage[id]} : \A h \in {History(id)} :
        /\ SumOver(c.votes, DOMAIN c.votes) = Cardinality(DOMAIN c.vote_log)
        /\ SumOver(c.votes, DOMAIN c.votes) = Len(h)
        /\ \A v \in DOMAIN c.vote_log : HasArtist(c.artists, c.vote_log[v])
        /\ \A a \in DOMAIN c.votes : HasArtist(c.artists, a)
        /\ \A k \in 1..Len(h) : HasArtist(c.artists, h[k].artist)
        /\ \A v \in DOMAIN c.vote_log :
              Cardinality({k \in 1..Len(h) :
                              h[k].voter = v /\ h[k].artist = c.vote_log[v]}) = 1

\* C22 witness: a vote has just been recorded in a competition that holds the
\* votes of two voters, one for each of its two artists.
C22_Witness ==
    /\ last.op = "vote" /\ last.ok
    /\ Cardinality(DOMAIN storage[last.id].vote_log) = 2
    /\ storage[last.id].votes = [a \in {"A", "B"} |-> 1]
    /\ Len(History(last.id)) = 2

\* ---- C23
\* C23: a vote(c, voter, artist) that returns adds voter -> artist to c's
\* vote_log, raises the artist's counter by exactly 1 (from 0 when it has no
\* entry) and appends exactly one record (voter, artist, now) at the end of
\* c's history; every other log entry and counter, every earlier history
\* record and its place, and every other field of the record (pot, finalized
\* and winner among them) are as before.
C23_VoteAddsExactlyOne ==
    [][(last'.op = "vote" /\ last'.ok) =>
          \A c \in {storage[last'.id]} : \A d \in {storage'[last'.id]} :
          \A h \in {History(last'.id)} : \A voter \in {last'.from} :
          \A artist \in {last'.arg} :
              /\ DOMAIN d.vote_log = DOMAIN c.vote_log \cup {voter}
              /\ d.vote_log[voter] = artist
              /\ \A v \in DOMAIN c.vote_log : v # voter => d.vote_log[v] = c.vote_log[v]
              /\ DOMAIN d.votes = DOMAIN c.votes \cup {artist}
              /\ d.votes[artist] = (IF artist \in DOMAIN c.votes THEN c.votes[artist] ELSE 0) + 1
              /\ \A a \in DOMAIN c.votes : a # artist => d.votes[a] = c.votes[a]
              /\ vote_hist'[last'.id] =
                    h \o <<[voter |-> voter, artist |-> artist, timestamp |-> now]>>
              /\ d = [c EXCEPT !.vote_log = d.vote_log, !.votes = d.votes]
              /\ d.pot = c.pot /\ d.finalized = c.finalized /\ d.winner = c.winner
              /\ now' = now]_vars

\* C23 witness: the second vote for A has just been recorded, by a3 after
\* a2, in a competition whose pot is funded: the counter went from 1 to 2.
C23_Witness ==
    /\ last.op = "vote" /\ last.ok /\ last.from = "a3" /\ last.arg = "A"
    /\ storage[last.id].votes = [a \in {"A"} |-> 2]
    /\ storage[last.id].pot > 0
    /\ Len(History(last.id)) = 2
    /\ History(last.id)[1].voter = "a2"
    /\ History(last.id)[2] = [voter |-> "a3", artist |-> "A", timestamp |-> now]

\* ---- C24
AllOrNothingOps == {"vote", "submit_art", "create_competition", "fund_pot",
                    "remove_artist"}

\* C24: a call of vote, submit_art, create_competition, fund_pot or
\* remove_artist that fails leaves the whole store (vote_log, tally and vote
\* history included) as it was and moves no token; and such a call returns
\* only when its preconditions held: a vote only from an authorizing voter
\* who is eligible (window open, not in vote_log, balance sufficient under
\* some token answer) for an artist among the current submissions; a
\* submission only inside the submission window under a name not yet
\* submitted; a creation only by an admin, for an unused id; a funding only
\* with its token transfer done; a removal only by an admin of a submitted
\* artist.
C24_AllOrNothing ==
    [][(last'.op \in AllOrNothingOps) =>
          IF ~last'.ok
          THEN store' = store /\ xfers' = <<>>
          ELSE \A id \in {last'.id} : \A from \in {last'.from} :
               /\ last'.op = "vote" =>
                     /\ Has(storage, id)
                     /\ \E caller \in VoterCallers : caller = <<from, TRUE>>
                     /\ \E tok \in TokenDecimals \X RawBalances :
                           check_voting_eligibility(storage[id], now, from,
                                                    tok[1], tok[2]).can_vote
                     /\ now >= storage[id].vote_start /\ now <= storage[id].vote_end
                     /\ from \notin DOMAIN storage[id].vote_log
                     /\ HasArtist(storage[id].artists, last'.arg)
               /\ last'.op = "submit_art" =>
                     /\ Has(storage, id)
                     /\ now >= storage[id].artist_add_start
                     /\ now <= storage[id].artist_add_end
                     /\ ~HasArtist(storage[id].artists, last'.arg)
               /\ last'.op = "create_competition" =>
                     /\ ~Has(storage, id)
                     /\ IsAdmin(from)
               /\ last'.op = "fund_pot" =>
                     /\ Has(storage, id)
                     /\ Len(xfers') = 1 /\ xfers'[1].ok
                     /\ xfers'[1].to = Contract /\ xfers'[1].amt = last'.arg
               /\ last'.op = "remove_artist" =>
                     /\ Has(storage, id)
                     /\ IsAdmin(from)
                     /\ HasArtist(storage[id].artists, last'.arg)]_vars

\* C24 witness: a vote call has just failed while voting is open, a2's vote
\* for A stands and B is not among the submissions (a3's vote for B is such a
\* call): log, tally and history hold a2's vote and nothing else.
C24_Witness ==
    /\ last.op = "vote" /\ ~last.ok
    /\ \E id \in DOMAIN storage :
          /\ now >= storage[id].vote_start /\ now <= storage[id].vote_end
          /\ ~HasArtist(storage[id].artists, "B")
          /\ storage[id].vote_log = [v \in {"a2"} |-> "A"]
          /\ storage[id].votes = [a \in {"A"} |-> 1]
          /\ Len(History(id)) = 1

\* ---- C25
\* C25: pay_winners on a stored competition fails while now <= vote_end, and a
\* failed call changes nothing and moves no token; a call that returns was
\* made after vote_end, leaves the competition finalized (running
\* internal_finalize exactly when it was not), and when the pot is 0 or the
\* winner, after that finalization, is None it attempts no transfer and
\* leaves the pot as it was.
C25_PayWinnersGuards ==
    [][(last'.op = "pay_winners") =>
          /\ \A id \in DOMAIN storage :
                now <= storage[id].vote_end => PayError(id) # ""
          /\ IF ~last'.ok
             THEN /\ store' = store /\ xfers' = <<>>
                  /\ \E id \in Ids : Has(storage, id) => now <= storage[id].vote_end
             ELSE \A c \in {storage[last'.id]} : \A d \in {storage'[last'.id]} :
                  /\ now > c.vote_end
                  /\ d.finalized
                  /\ finals'[last'.id] = finals[last'.id] + (IF c.finalized THEN 0 ELSE 1)
                  /\ c.finalized => d.winner = c.winner
                  /\ (c.pot = 0 \/ d.winner = None) =>
                        /\ xfers' = <<>>
                        /\ ~last'.pass
                        /\ d.pot = c.pot]_vars

\* C25 witness: pay_winners has just returned after vote_end on a competition
\* with a vote and an empty pot: it is finalized with winner A, no transfer
\* was attempted and the pot is still 0.
C25_Witness ==
    /\ last.op = "pay_winners" /\ last.ok /\ ~last.pass
    /\ now > storage[last.id].vote_end
    /\ storage[last.id].finalized
    /\ storage[last.id].winner = "A"
    /\ storage[last.id].pot = 0
    /\ passes[last.id] = 0
    /\ xfers = <<>>

\* ---- C26
\* C26 as stated: a pay_winners call whose decimals query fails (a call that
\* returns without a distribution pass although the pot is positive and there
\* is a winner) attempts no transfer and leaves the stored competition and
\* the artist profiles exactly as they were before the call.
C26_DecimalsFailureChangesNothing ==
    [][(/\ last'.op = "pay_winners" /\ last'.ok /\ ~last'.pass
        /\ storage'[last'.id].pot > 0
        /\ storage'[last'.id].winner # None) =>
          /\ xfers' = <<>>
          /\ storage'[last'.id] = storage[last'.id]
          /\ artist_info' = artist_info]_vars

\* ---- C27
\* the place of the i-th artist in the ranking: by votes descending, then by
\* submission order
RankPlace(c, i) == PrimaryPlace(c, 1..Len(c.artists), i)

\* the number of artists with votes, capped at the schedule length
WinnersCount(c) ==
    Min(Cardinality({i \in 1..Len(c.artists) : VotesOf(c, i) > 0}), Len(c.share_ratio))

\* the whole-unit amounts of the first n transfers of x that succeeded
SumOkFirst(x, n) == SumOk(SubSeq(x, 1, n), 1)

\* C27: in a distribution pass every share-based payment is attempted whatever
\* the outcome of the ones before it, in the same group or an earlier one;
\* the amounts that failed are not counted in total_paid; and so the leftover
\* that the leftover payments share out is the pot less the amounts of the
\* share-based transfers that succeeded: every leftover payment is
\* floor(leftover * percentage / total_winner_share) for a schedule
\* percentage, and the first one, when not zero, goes to the top-ranked artist
\* with the first percentage.
C27_PaymentsIndependent ==
    [][(last'.op = "pay_winners" /\ last'.pass) =>
          \A c \in {storage[last'.id]} : \A xs \in {xfers'} : \A paid \in {PrimaryPaid(c)} :
          \A n \in {Cardinality(paid)} :
              /\ Len(xs) >= n
              /\ \A i \in paid : xs[PrimaryPlace(c, paid, i)].to = c.artists[i][1]
              /\ \A leftover \in {c.pot - SumOkFirst(xs, n)} :
                 \A tws \in {ScheduleSum(c.share_ratio, 0, WinnersCount(c))} :
                    /\ leftover >= 0
                    /\ (\E k \in 1..n : ~xs[k].ok) => leftover > 0
                    /\ \A k \in (n + 1)..Len(xs) :
                          \E pos \in 1..WinnersCount(c) :
                              xs[k].amt = (leftover * c.share_ratio[pos]) \div tws
                    /\ (tws > 0 /\ (leftover * c.share_ratio[1]) \div tws > 0) =>
                          /\ Len(xs) > n
                          /\ xs[n + 1].amt = (leftover * c.share_ratio[1]) \div tws
                          /\ \E i \in 1..Len(c.artists) :
                                RankPlace(c, i) = 1 /\ xs[n + 1].to = c.artists[i][1]]_vars

\* C27 witness: a pass over votes 3, 3, 1 and pot 100 in which the first
\* payment of 40 failed: the other two share-based payments were still
\* attempted and succeeded, and the leftover payments share out 40.
C27_Witness ==
    /\ last.op = "pay_winners" /\ last.pass
    /\ Len(xfers) = 6
    /\ ~xfers[1].ok /\ xfers[1].amt = 40
    /\ xfers[2].ok /\ xfers[2].amt = 40
    /\ xfers[3].ok /\ xfers[3].amt = 20
    /\ xfers[4].amt = 20 /\ xfers[5].amt = 12 /\ xfers[6].amt = 8

\* ---- C28
\* the name under which address addr submitted, or None
FindName(artists, addr) ==
    IF \E i \in 1..Len(artists) : artists[i][1] = addr
    THEN artists[CHOOSE i \in 1..Len(artists) : artists[i][1] = addr][2]
    ELSE None
\* C28: in a distribution pass no transfer, share-based or leftover, goes to
\* an artist without votes, and none at all goes to an artist whose tie group
\* starts at or beyond the end of the share schedule.
C28_NothingForZeroVotesOrPastSchedule ==
    [][(last'.op = "pay_winners" /\ last'.pass) =>
          \A c \in {storage[last'.id]} : \A xs \in {xfers'} :
              /\ \A k \in 1..Len(xs) : HasArtist(c.artists, FindName(c.artists, xs[k].to))
              /\ \A i \in 1..Len(c.artists) :
                    (VotesOf(c, i) = 0 \/ GroupStart(c, i) >= Len(c.share_ratio)) =>
                        \A k \in 1..Len(xs) : xs[k].to # c.artists[i][1]]_vars

\* C28 witness: a pass over four artists with votes 3, 3, 2, 1 and pot 100:
\* the first three are paid, and the fourth, whose group starts at the end of
\* the three-place schedule, is sent nothing although it has a vote.
C28_Witness ==
    /\ last.op = "pay_winners" /\ last.pass
    /\ Len(storage[last.id].artists) = 4
    /\ [i \in 1..4 |-> VotesOf(storage[last.id], i)] = <<3, 3, 2, 1>>
    /\ Len(xfers) >= 3
    /\ {xfers[k].to : k \in 1..Len(xfers)} = {"a1", "a3", "a2"}

\* ---- C29
\* the amounts of the transfers of x, whatever their outcome
SumAll(x) == SumOk([k \in 1..Len(x) |-> [x[k] EXCEPT !.ok = TRUE]], 1)

\* C29: in a distribution pass, with leftover the pot less the amounts of the
\* share-based transfers that succeeded, winners_count the number of artists
\* with votes capped at the schedule length and total_winner_share the sum of
\* the first winners_count percentages (positive when there is a winner):
\* when leftover is positive the transfers after the share-based ones are
\* exactly, in ranking order, one of floor(leftover * schedule[i] /
\* total_winner_share) to the artist at each ranking position i <
\* winners_count for which that amount is not zero, attempted whatever the
\* outcome of the others; without leftover there is none; and their amounts
\* sum to at most leftover.
C29_LeftoverShares ==
    [][(last'.op = "pay_winners" /\ last'.pass) =>
          \A c \in {storage[last'.id]} : \A xs \in {xfers'} :
          \A n \in {Cardinality(PrimaryPaid(c))} : \A wc \in {WinnersCount(c)} :
          \A tws \in {ScheduleSum(c.share_ratio, 0, wc)} :
          \A leftover \in {c.pot - SumOkFirst(xs, n)} :
          \A P \in {{pos \in 1..wc : leftover > 0
                                       /\ (leftover * c.share_ratio[pos]) \div tws > 0}} :
          \A L \in {SubSeq(xs, n + 1, Len(xs))} :
              /\ wc > 0 => tws > 0
              /\ Len(L) = Cardinality(P)
              /\ \A pos \in P :
                    \A x \in {L[Cardinality({q \in P : q <= pos})]} :
                        /\ x.amt = (leftover * c.share_ratio[pos]) \div tws
                        /\ \E i \in 1..Len(c.artists) :
                              RankPlace(c, i) = pos /\ x.to = c.artists[i][1]
              /\ SumAll(L) <= leftover]_vars

\* C29 witness: a pass over two artists with votes and pot 10: 5 and 3 were
\* paid by the schedule, and of the leftover 2 the first artist was sent
\* floor(2 * 50 / 80) = 1, the second nothing.
C29_Witness ==
    /\ last.op = "pay_winners" /\ last.pass
    /\ Len(storage[last.id].artists) = 2
    /\ VotesOf(storage[last.id], 1) = 2 /\ VotesOf(storage[last.id], 2) = 1
    /\ [k \in 1..Len(xfers) |-> <<xfers[k].to, xfers[k].amt, xfers[k].ok>>]
          = <<<<"a1", 5, TRUE>>, <<"a3", 3, TRUE>>, <<"a1", 1, TRUE>>>>

\* ---- C30
\* the k-th event of ev comes after an event of the set firsts
Preceded(ev, k, firsts) == \E j \in 1..(k - 1) : ev[j] \in firsts

\* C30 as stated: in a vote that returns, the vote-log write (the update of
\* comp.vote_log, or at the latest the store of the record) comes before
\* every token-service call of the call, the decimals and balance queries of
\* the eligibility check included; in a delete_competition that returns, the
\* record is removed before the refund transfer; in a fund_pot that returns,
\* the record with the new pot is stored before the transfer.
C30_StateWrittenBeforeTokenCalls ==
    /\ (last.op = "vote" /\ last.ok) =>
          \A k \in 1..Len(events) :
              events[k] \in TokenCalls =>
                  Preceded(events, k, {"comp.vote_log.set", "store comp"})
    /\ (last.op = "delete_competition" /\ last.ok) =>
          \A k \in 1..Len(events) :
              events[k] = "token.transfer" => Preceded(events, k, {"remove comp"})
    /\ (last.op = "fund_pot" /\ last.ok) =>
          \A k \in 1..Len(events) :
              events[k] = "token.transfer" => Preceded(events, k, {"store comp"})

\* C31: every conversion of a whole-unit amount to minor units in fund_pot,
\* delete_competition and pay_winners is overflow-checked on u64: a call that
\* returned computed 10^decimals and pot * share_per_artist without exceeding
\* u64::MAX, and every transfer it issued carries exactly amount * 10^decimals,
\* which does not exceed u64::MAX either.
C31_ScalingIsOverflowChecked ==
    (last.ok /\ last.op \in {"fund_pot", "delete_competition", "pay_winners"}) =>
        /\ Fits(Pow10Wide(last.arg.decimals))
        /\ last.op = "pay_winners" =>
             /\ Fits(Product(last.arg.pot, Wide(last.arg.share)))
             /\ \A k \in 1..Len(xfers) :
                  xfers[k].amt =
                      Wrapped(Quotient(Product(last.arg.pot, Wide(last.arg.share)),
                                       100, U64Limbs + 1, 0))
        /\ \A k \in 1..Len(xfers) :
             /\ Fits(Product(xfers[k].amt, Pow10Wide(last.arg.decimals)))
             /\ xfers[k].stroop = Wrapped(Product(xfers[k].amt, Pow10Wide(last.arg.decimals)))

\* ---- C32
\* C32: a delete_competition that returns was called by an admin; it leaves
\* the id without a competition record, out of the competition-id list and
\* without a vote history, and it transfers exactly pot * 10^decimals minor
\* units to the caller when the pot was positive and nothing otherwise.
\* Afterwards an authorized admin's create_competition with that id and
\* ordered windows is accepted, and a create_competition that returns stores
\* a competition with no artists, tally, vote log or history, pot 0, not
\* finalized and without a winner.
C32_DeleteThenCreateAfresh ==
    [][/\ (last'.op = "delete_competition" /\ last'.ok) =>
            \A id \in {last'.id} : \A pot \in {storage[id].pot} :
                /\ IsAdmin(last'.from)
                /\ ~Has(storage', id)
                /\ \A k \in 1..Len(comp_list') : comp_list'[k] # id
                /\ ~Has(vote_hist', id)
                /\ IF pot > 0
                   THEN \E d \in TokenDecimals :
                          xfers' = <<[to |-> last'.from, amt |-> pot,
                                      stroop |-> pot * Pow10(d), ok |-> TRUE]>>
                   ELSE xfers' = <<>>
                /\ \A caller \in Callers, w \in Windows :
                     (IsAdmin(caller[1]) /\ caller[2] /\ w[1] < w[2] /\ w[2] < w[3] /\ w[3] < w[4])
                        => (CreateError(caller[1], caller[2], id, w[1], w[2], w[3], w[4]) = "")'
       /\ (last'.op = "create_competition" /\ last'.ok) =>
            \A id \in {last'.id} :
                /\ Has(storage', id)
                /\ storage'[id].artists = <<>>
                /\ storage'[id].votes = EmptyMap
                /\ storage'[id].vote_log = EmptyMap
                /\ GetOr(vote_hist', id, <<>>) = <<>>
                /\ storage'[id].pot = 0
                /\ storage'[id].finalized = FALSE
                /\ storage'[id].winner = None
      ]_vars

\* C32 witness: a competition that had a winner was deleted and its id has
\* just been used by create_competition again.
C32_Witness ==
    /\ last.op = "create_competition" /\ last.ok
    /\ \E a \in DOMAIN artist_info : artist_info[a].competitions_won > 0

\* ---- C33
\* C33: a create_competition that returns was given an id that was not stored,
\* and a submit_art that returns was made with artist_add_start <= now <=
\* artist_add_end under a name that was not in the competition's artist list;
\* in every reachable state the artist names of a competition are pairwise
\* distinct, and the competition-id list holds the id of every stored
\* competition exactly once and no other id.
C33_UniqueNamesAndIds ==
    /\ [](/\ \A id \in DOMAIN storage :
               /\ \A i, j \in 1..Len(storage[id].artists) :
                    storage[id].artists[i][2] = storage[id].artists[j][2] => i = j
               /\ Cardinality({k \in 1..Len(comp_list) : comp_list[k] = id}) = 1
          /\ \A k \in 1..Len(comp_list) : Has(storage, comp_list[k]))
    /\ [][/\ (last'.op = "create_competition" /\ last'.ok) => ~Has(storage, last'.id)
          /\ (last'.op = "submit_art" /\ last'.ok) =>
               /\ Has(storage, last'.id)
               /\ storage[last'.id].artist_add_start <= now
               /\ now <= storage[last'.id].artist_add_end
               /\ ~HasArtist(storage[last'.id].artists, last'.arg)
               /\ storage'[last'.id].artists =
                      Append(storage[last'.id].artists, <<last'.from, last'.arg>>)
         ]_vars

\* C33 witness: B and then A have submitted to the one listed competition,
\* A last and with the second work.
C33_Witness ==
    /\ last.op = "submit_art" /\ last.ok /\ last.arg = "A"
    /\ comp_list = <<last.id>>
    /\ Len(storage[last.id].artists) = 2
    /\ storage[last.id].artists[1][2] = "B"
    /\ storage[last.id].artist_metadata["A"][1].artwork_name = "w2"

\* ---- C34
Due(id) == Has(storage, id) /\ now > storage[id].vote_end /\ ~storage[id].finalized
Finalized(id) == Has(storage, id) /\ storage[id].finalized

\* C34: under weak fairness of the calls of pay_winners or
\* get_active_competitions, a stored competition whose vote_end the clock has
\* passed is eventually finalized unless it is deleted; a finalized competition
\* stays finalized as long as it is stored; the clock never goes back; and no
\* vote or submit_art on a finalized competition is accepted.
C34_EventuallyFinalizedForGood ==
    /\ \A id \in Ids : Due(id) ~> (Finalized(id) \/ ~Has(storage, id))
    /\ [][/\ now' >= now
          /\ \A id \in Ids :
               /\ (Finalized(id) /\ Has(storage', id)) => storage'[id].finalized
               /\ (Finalized(id) /\ last'.op \in {"vote", "submit_art"}) =>
                    (~last'.ok /\ storage' = storage /\ vote_hist' = vote_hist)
         ]_vars

\* C34 witness: the clock has passed vote_end of a competition with votes, and
\* a call of get_active_competitions has finalized it.
C34_Witness ==
    /\ last.op = "get_active_competitions"
    /\ \E id \in Ids :
         /\ Finalized(id)
         /\ now > storage[id].vote_end
         /\ storage[id].winner # None
         /\ finals[id] = 1

====
